---- MODULE Spec2Model ----
\* A model of generate_premium_report.py: the entry point (__main__), the
\* document assembler build_premium_report with add_chart_to_story, the twelve
\* section builders, the six chart generators and the files the run touches.
EXTENDS Integers, Sequences, FiniteSets, TLC

\* ---------------------------------------------------------------------------
\* Bounds
\* ---------------------------------------------------------------------------
\* How many times the entry point is invoked in one behaviour.
MaxRuns == 2

\* ---------------------------------------------------------------------------
\* Paths (os.path on POSIX): a path is its list of components and whether it
\* starts at the root.
\* ---------------------------------------------------------------------------
AbsPath(parts) == [abs |-> TRUE, parts |-> parts]
RelPath(parts) == [abs |-> FALSE, parts |-> parts]

\* os.path.join(a, b) as called at line 1758: an absolute b replaces a,
\* otherwise the components of b follow those of a.
os_path_join_second(a, b) == b
os_path_join(a, b) ==
    IF b.abs THEN b ELSE [abs |-> a.abs, parts |-> a.parts \o b.parts]

\* The directory a path lies in.
Dirname(p) == [abs |-> p.abs, parts |-> SubSeq(p.parts, 1, Len(p.parts) - 1)]

\* A path and every directory above it.
Ancestors(p) == { [abs |-> p.abs, parts |-> SubSeq(p.parts, 1, n)] : n \in 0..Len(p.parts) }

\* line 1755
output_dir == AbsPath(<<"Users", "philippholke", "Crimson Sun", "bane", "output">>)
\* line 1758, second argument of os.path.join
output_name == RelPath(<<"Global_IoT_Robotics_Antenna_Market_Strategy_2026_Premium.pdf">>)
\* line 1758
output_file == os_path_join(output_dir, output_name)

\* tempfile.gettempdir() and the name NamedTemporaryFile(suffix='.png') makes
\* for the n-th temporary file of the machine (line 1648).
tempdir == AbsPath(<<"tmp">>)
TmpPath(n) == os_path_join(tempdir, RelPath(<<"tmp" \o ToString(n) \o ".png">>))

\* os.makedirs(name, exist_ok) on the directories dirs and files fileset
\* (line 1756); permitted says whether the operating system lets the process
\* create the missing directories.  The result is the new set of directories
\* and whether the call raised.
makedirs_noop(ds, fileset, name, exist_ok, permitted) ==
    [raised |-> FALSE, dirs |-> ds]
makedirs_strict(ds, fileset, name, exist_ok, permitted) ==
    IF name \in ds \/ name \in fileset \/ ~permitted
    THEN [raised |-> TRUE, dirs |-> ds]
    ELSE [raised |-> FALSE, dirs |-> ds \cup Ancestors(name)]
makedirs(ds, fileset, name, exist_ok, permitted) ==
    IF name \in ds
    THEN [raised |-> ~exist_ok, dirs |-> ds]
    ELSE IF name \in fileset \/ ~permitted
         THEN [raised |-> TRUE, dirs |-> ds]
         ELSE [raised |-> FALSE, dirs |-> ds \cup Ancestors(name)]

\* ---------------------------------------------------------------------------
\* Flowables
\* ---------------------------------------------------------------------------
PageBreak == [kind |-> "PageBreak"]
Spacer(w, h) == [kind |-> "Spacer", width |-> w, height |-> h]
\* Paragraph(text, style): text and the name of the style looked up in styles.
Paragraph(text, style) == [kind |-> "Paragraph", text |-> text, style |-> style]
\* A Paragraph of report prose: only its style is kept.
Prose(style) == [kind |-> "Paragraph", style |-> style]
\* Table(data, colWidths=...): only the column widths are kept.
Table(colWidths) == [kind |-> "Table", colWidths |-> colWidths]
Image(path, w, h) == [kind |-> "Image", path |-> path, width |-> w, height |-> h]
\* class ChapterHeader, __init__
ChapterHeader(number, title, width) ==
    [kind |-> "ChapterHeader", number |-> number, title |-> title, header_width |-> width]

\* ---------------------------------------------------------------------------
\* Section builders
\* ---------------------------------------------------------------------------
\* build_toc, toc_items (lines 718-746): (num, title, page)
toc_items ==
    << <<"1", "Executive Summary", "3">>,
       <<"2", "Market Overview and Sizing", "4">>,
       <<"", "Total Addressable Market", "4">>,
       <<"", "Market Drivers and Growth Catalysts", "5">>,
       <<"3", "Technology Trends and Product Evolution", "7">>,
       <<"", "Antenna Type Segmentation", "7">>,
       <<"", "Frequency Band Prioritization", "8">>,
       <<"", "Key Technology Innovations", "9">>,
       <<"4", "Competitive Landscape Analysis", "10">>,
       <<"", "Global Manufacturers Ecosystem", "10">>,
       <<"", "Market Share Dynamics", "12">>,
       <<"5", "Regional Insights: Germany-Specific Opportunities", "13">>,
       <<"", "German Industrial Robotics and IoT Market", "13">>,
       <<"", "Regulatory Environment", "14">>,
       <<"6", "Strategic Recommendations for 2026", "15">>,
       <<"", "Product Portfolio Architecture", "15">>,
       <<"", "Market Segmentation and Vertical Focus", "16">>,
       <<"", "Distribution and Channel Strategy", "17">>,
       <<"", "Technical Capability Development", "18">>,
       <<"", "Partnerships and Strategic Alliances", "19">>,
       <<"", "Pricing and Margin Strategy", "20">>,
       <<"", "Marketing and Brand Positioning", "21">>,
       <<"7", "Risk Analysis and Mitigation", "22">>,
       <<"8", "Implementation Timeline", "23">>,
       <<"9", "Success Metrics and KPIs", "24">>,
       <<"10", "Conclusion", "25">>,
       <<"", "References", "26">> >>

\* The characters of the strings of toc_items, one by one.
chars(s) ==
    CASE s = "" -> << >>
      [] s = "1" ->
           << "1" >>
      [] s = "Executive Summary" ->
           << "E", "x", "e", "c", "u", "t", "i", "v", "e", " ", "S", "u", "m", "m", "a", "r", "y" >>
      [] s = "3" ->
           << "3" >>
      [] s = "2" ->
           << "2" >>
      [] s = "Market Overview and Sizing" ->
           << "M", "a", "r", "k", "e", "t", " ", "O", "v", "e", "r", "v", "i", "e", "w", " ", "a", "n", "d", " ", "S", "i", "z", "i", "n", "g" >>
      [] s = "4" ->
           << "4" >>
      [] s = "Total Addressable Market" ->
           << "T", "o", "t", "a", "l", " ", "A", "d", "d", "r", "e", "s", "s", "a", "b", "l", "e", " ", "M", "a", "r", "k", "e", "t" >>
      [] s = "Market Drivers and Growth Catalysts" ->
           << "M", "a", "r", "k", "e", "t", " ", "D", "r", "i", "v", "e", "r", "s", " ", "a", "n", "d", " ", "G", "r", "o", "w", "t", "h", " ", "C", "a", "t", "a", "l", "y", "s", "t", "s" >>
      [] s = "5" ->
           << "5" >>
      [] s = "Technology Trends and Product Evolution" ->
           << "T", "e", "c", "h", "n", "o", "l", "o", "g", "y", " ", "T", "r", "e", "n", "d", "s", " ", "a", "n", "d", " ", "P", "r", "o", "d", "u", "c", "t", " ", "E", "v", "o", "l", "u", "t", "i", "o", "n" >>
      [] s = "7" ->
           << "7" >>
      [] s = "Antenna Type Segmentation" ->
           << "A", "n", "t", "e", "n", "n", "a", " ", "T", "y", "p", "e", " ", "S", "e", "g", "m", "e", "n", "t", "a", "t", "i", "o", "n" >>
      [] s = "Frequency Band Prioritization" ->
           << "F", "r", "e", "q", "u", "e", "n", "c", "y", " ", "B", "a", "n", "d", " ", "P", "r", "i", "o", "r", "i", "t", "i", "z", "a", "t", "i", "o", "n" >>
      [] s = "8" ->
           << "8" >>
      [] s = "Key Technology Innovations" ->
           << "K", "e", "y", " ", "T", "e", "c", "h", "n", "o", "l", "o", "g", "y", " ", "I", "n", "n", "o", "v", "a", "t", "i", "o", "n", "s" >>
      [] s = "9" ->
           << "9" >>
      [] s = "Competitive Landscape Analysis" ->
           << "C", "o", "m", "p", "e", "t", "i", "t", "i", "v", "e", " ", "L", "a", "n", "d", "s", "c", "a", "p", "e", " ", "A", "n", "a", "l", "y", "s", "i", "s" >>
      [] s = "10" ->
           << "1", "0" >>
      [] s = "Global Manufacturers Ecosystem" ->
           << "G", "l", "o", "b", "a", "l", " ", "M", "a", "n", "u", "f", "a", "c", "t", "u", "r", "e", "r", "s", " ", "E", "c", "o", "s", "y", "s", "t", "e", "m" >>
      [] s = "Market Share Dynamics" ->
           << "M", "a", "r", "k", "e", "t", " ", "S", "h", "a", "r", "e", " ", "D", "y", "n", "a", "m", "i", "c", "s" >>
      [] s = "12" ->
           << "1", "2" >>
      [] s = "Regional Insights: Germany-Specific Opportunities" ->
           << "R", "e", "g", "i", "o", "n", "a", "l", " ", "I", "n", "s", "i", "g", "h", "t", "s", ":", " ", "G", "e", "r", "m", "a", "n", "y", "-", "S", "p", "e", "c", "i", "f", "i", "c", " ", "O", "p", "p", "o", "r", "t", "u", "n", "i", "t", "i", "e", "s" >>
      [] s = "13" ->
           << "1", "3" >>
      [] s = "German Industrial Robotics and IoT Market" ->
           << "G", "e", "r", "m", "a", "n", " ", "I", "n", "d", "u", "s", "t", "r", "i", "a", "l", " ", "R", "o", "b", "o", "t", "i", "c", "s", " ", "a", "n", "d", " ", "I", "o", "T", " ", "M", "a", "r", "k", "e", "t" >>
      [] s = "Regulatory Environment" ->
           << "R", "e", "g", "u", "l", "a", "t", "o", "r", "y", " ", "E", "n", "v", "i", "r", "o", "n", "m", "e", "n", "t" >>
      [] s = "14" ->
           << "1", "4" >>
      [] s = "6" ->
           << "6" >>
      [] s = "Strategic Recommendations for 2026" ->
           << "S", "t", "r", "a", "t", "e", "g", "i", "c", " ", "R", "e", "c", "o", "m", "m", "e", "n", "d", "a", "t", "i", "o", "n", "s", " ", "f", "o", "r", " ", "2", "0", "2", "6" >>
      [] s = "15" ->
           << "1", "5" >>
      [] s = "Product Portfolio Architecture" ->
           << "P", "r", "o", "d", "u", "c", "t", " ", "P", "o", "r", "t", "f", "o", "l", "i", "o", " ", "A", "r", "c", "h", "i", "t", "e", "c", "t", "u", "r", "e" >>
      [] s = "Market Segmentation and Vertical Focus" ->
           << "M", "a", "r", "k", "e", "t", " ", "S", "e", "g", "m", "e", "n", "t", "a", "t", "i", "o", "n", " ", "a", "n", "d", " ", "V", "e", "r", "t", "i", "c", "a", "l", " ", "F", "o", "c", "u", "s" >>
      [] s = "16" ->
           << "1", "6" >>
      [] s = "Distribution and Channel Strategy" ->
           << "D", "i", "s", "t", "r", "i", "b", "u", "t", "i", "o", "n", " ", "a", "n", "d", " ", "C", "h", "a", "n", "n", "e", "l", " ", "S", "t", "r", "a", "t", "e", "g", "y" >>
      [] s = "17" ->
           << "1", "7" >>
      [] s = "Technical Capability Development" ->
           << "T", "e", "c", "h", "n", "i", "c", "a", "l", " ", "C", "a", "p", "a", "b", "i", "l", "i", "t", "y", " ", "D", "e", "v", "e", "l", "o", "p", "m", "e", "n", "t" >>
      [] s = "18" ->
           << "1", "8" >>
      [] s = "Partnerships and Strategic Alliances" ->
           << "P", "a", "r", "t", "n", "e", "r", "s", "h", "i", "p", "s", " ", "a", "n", "d", " ", "S", "t", "r", "a", "t", "e", "g", "i", "c", " ", "A", "l", "l", "i", "a", "n", "c", "e", "s" >>
      [] s = "19" ->
           << "1", "9" >>
      [] s = "Pricing and Margin Strategy" ->
           << "P", "r", "i", "c", "i", "n", "g", " ", "a", "n", "d", " ", "M", "a", "r", "g", "i", "n", " ", "S", "t", "r", "a", "t", "e", "g", "y" >>
      [] s = "20" ->
           << "2", "0" >>
      [] s = "Marketing and Brand Positioning" ->
           << "M", "a", "r", "k", "e", "t", "i", "n", "g", " ", "a", "n", "d", " ", "B", "r", "a", "n", "d", " ", "P", "o", "s", "i", "t", "i", "o", "n", "i", "n", "g" >>
      [] s = "21" ->
           << "2", "1" >>
      [] s = "Risk Analysis and Mitigation" ->
           << "R", "i", "s", "k", " ", "A", "n", "a", "l", "y", "s", "i", "s", " ", "a", "n", "d", " ", "M", "i", "t", "i", "g", "a", "t", "i", "o", "n" >>
      [] s = "22" ->
           << "2", "2" >>
      [] s = "Implementation Timeline" ->
           << "I", "m", "p", "l", "e", "m", "e", "n", "t", "a", "t", "i", "o", "n", " ", "T", "i", "m", "e", "l", "i", "n", "e" >>
      [] s = "23" ->
           << "2", "3" >>
      [] s = "Success Metrics and KPIs" ->
           << "S", "u", "c", "c", "e", "s", "s", " ", "M", "e", "t", "r", "i", "c", "s", " ", "a", "n", "d", " ", "K", "P", "I", "s" >>
      [] s = "24" ->
           << "2", "4" >>
      [] s = "Conclusion" ->
           << "C", "o", "n", "c", "l", "u", "s", "i", "o", "n" >>
      [] s = "25" ->
           << "2", "5" >>
      [] s = "References" ->
           << "R", "e", "f", "e", "r", "e", "n", "c", "e", "s" >>
      [] s = "26" ->
           << "2", "6" >>

\* '.' * 50 (line 757)
dots(n) == [i \in 1..n |-> "."]

\* prefix (lines 749-754): f"<b>{num}.</b> " for a numbered entry, five spaces
\* otherwise.
toc_prefix(num) ==
    IF Len(num) > 0
    THEN << "<", "b", ">" >> \o num \o << ".", "<", "/", "b", ">", " " >>
    ELSE << " ", " ", " ", " ", " " >>

\* text = f"{prefix}{title} {'.' * 50} {page}" (line 757)
toc_text(num, title, page) ==
    toc_prefix(num) \o title \o << " " >> \o dots(50) \o << " " >> \o page

\* text[:80] (line 758); a variant that keeps the whole text:
slice80_all(text) == text
slice80(text) == SubSeq(text, 1, IF Len(text) < 80 THEN Len(text) ELSE 80)

\* One pass of the loop of build_toc (lines 748-758): the entry's Paragraph,
\* with the three parts of the entry and the characters of its text.
TocLine(item) ==
    [kind |-> "Paragraph",
     style |-> IF item[1] # "" THEN "TOCSection" ELSE "TOCEntry",
     num |-> item[1], title |-> item[2], page |-> item[3],
     line |-> slice80(toc_text(chars(item[1]), chars(item[2]), chars(item[3])))]

\* build_toc (lines 711-761)
build_toc ==
    << Paragraph("Table of Contents", "ExecTitle"), Spacer(1, 20) >>
    \o [i \in 1..Len(toc_items) |-> TocLine(toc_items[i])]
    \o << PageBreak >>

\* build_executive_summary (line 763): the flowables it returns, in order; the number after
\* each element is the source line that constructs it.
build_executive_summary ==
    <<
       ChapterHeader(1, "Executive Summary", 450),  \* 767
       Spacer(1, 20),  \* 768
       Table(<<125, 125, 125, 125>>),  \* 780
       Spacer(1, 25),  \* 786
       Prose("PremiumBody"),  \* 794
       Prose("PremiumBody"),  \* 800
       Spacer(1, 15),  \* 801
       Paragraph("<b>KEY FINDINGS</b>", "SubsectionHeader"),  \* 804
       Prose("BulletText"),  \* 817
       Prose("BulletText"),  \* 817
       Prose("BulletText"),  \* 817
       Prose("BulletText"),  \* 817
       Prose("BulletText"),  \* 817
       Prose("BulletText"),  \* 817
       Prose("BulletText"),  \* 817
       PageBreak  \* 820
    >>

\* build_market_overview (line 823): the flowables it returns, in order; the number after
\* each element is the source line that constructs it.
build_market_overview ==
    <<
       ChapterHeader(2, "Market Overview and Sizing", 450),  \* 827
       Spacer(1, 20),  \* 828
       Paragraph("Total Addressable Market (TAM)", "SubsectionHeader"),  \* 831
       Prose("PremiumBody"),  \* 837
       Spacer(1, 15),  \* 838
       Paragraph("Primary Market Segments", "H3Header"),  \* 841
       Table(<<120, 80, 90, 100, 60>>),  \* 854
       Prose("Caption"),  \* 871
       Spacer(1, 10),  \* 878
       Prose("Callout"),  \* 879
       Spacer(1, 20),  \* 880
       Paragraph("Market Drivers and Growth Catalysts", "SubsectionHeader"),  \* 883
       Paragraph("<b>1. Industry 4.0 and Digital Transformation</b>", "H3Header"),  \* 886
       Prose("PremiumBody"),  \* 891
       Paragraph("<b>2. 5G Deployment and Spectrum Harmonization</b>", "H3Header"),  \* 894
       Prose("PremiumBody"),  \* 898
       Table(<<100, 120, 230>>),  \* 910
       Spacer(1, 15),  \* 923
       Paragraph("<b>3. Autonomous Systems Market Expansion</b>", "H3Header"),  \* 926
       Prose("PremiumBody"),  \* 931
       Paragraph("<b>4. AI-Driven Optimization and Adaptive Antenna Systems</b>", "H3Header"),  \* 934
       Prose("PremiumBody"),  \* 939
       Paragraph("<b>5. Labor Shortages and Automation Imperative</b>", "H3Header"),  \* 942
       Prose("PremiumBody"),  \* 947
       PageBreak  \* 949
    >>

\* build_technology_trends (line 952): the flowables it returns, in order; the number after
\* each element is the source line that constructs it.
build_technology_trends ==
    <<
       ChapterHeader(3, "Technology Trends and Product Evolution", 450),  \* 956
       Spacer(1, 20),  \* 957
       Prose("PremiumBody"),  \* 962
       Spacer(1, 15),  \* 963
       Paragraph("Antenna Type Segmentation", "SubsectionHeader"),  \* 965
       Paragraph("<b>1. PCB Antennas (Antenna-on-Board)</b>", "H3Header"),  \* 982
       Prose("PremiumBody"),  \* 983
       Paragraph("<b>2. Chip Antennas and LDS (Laser Direct Structuring)</b>", "H3Header"),  \* 982
       Prose("PremiumBody"),  \* 983
       Paragraph("<b>3. Phased Array Antennas and MIMO Systems</b>", "H3Header"),  \* 982
       Prose("PremiumBody"),  \* 983
       Paragraph("<b>4. Integrated Antenna Modules (AiP)</b>", "H3Header"),  \* 982
       Prose("PremiumBody"),  \* 983
       Paragraph("<b>5. SATCOM Antennas</b>", "H3Header"),  \* 982
       Prose("PremiumBody"),  \* 983
       Spacer(1, 15),  \* 985
       Paragraph("Key Technology Innovations Reshaping the Market", "SubsectionHeader"),  \* 986
       Prose("BulletText"),  \* 997
       Prose("BulletText"),  \* 997
       Prose("BulletText"),  \* 997
       Prose("BulletText"),  \* 997
       Prose("BulletText"),  \* 997
       PageBreak  \* 999
    >>

\* build_competitive_landscape (line 1002): the flowables it returns, in order; the number after
\* each element is the source line that constructs it.
build_competitive_landscape ==
    <<
       ChapterHeader(4, "Competitive Landscape Analysis", 450),  \* 1006
       Spacer(1, 20),  \* 1007
       Prose("PremiumBody"),  \* 1012
       Spacer(1, 15),  \* 1013
       Paragraph("Tier 1 Global Players", "SubsectionHeader"),  \* 1015
       Table(<<70, 50, 130, 100, 100>>),  \* 1033
       Spacer(1, 15),  \* 1047
       Paragraph("Market Share Dynamics (2025)", "SubsectionHeader"),  \* 1050
       Prose("PremiumBody"),  \* 1055
       Spacer(1, 10),  \* 1056
       Paragraph("Competitive Advantages for German Distributors", "SubsectionHeader"),  \* 1059
       Prose("BulletText"),  \* 1071
       Prose("BulletText"),  \* 1071
       Prose("BulletText"),  \* 1071
       Prose("BulletText"),  \* 1071
       Prose("BulletText"),  \* 1071
       Prose("BulletText"),  \* 1071
       PageBreak  \* 1073
    >>

\* build_regional_insights (line 1076): the flowables it returns, in order; the number after
\* each element is the source line that constructs it.
build_regional_insights ==
    <<
       ChapterHeader(5, "Regional Insights: Germany", 450),  \* 1080
       Spacer(1, 20),  \* 1081
       Paragraph("German Industrial Robotics and IoT Market Context", "SubsectionHeader"),  \* 1083
       Prose("PremiumBody"),  \* 1089
       Spacer(1, 15),  \* 1090
       Paragraph("Geographic Concentration", "H3Header"),  \* 1093
       Table(<<130, 80, 240>>),  \* 1106
       Spacer(1, 20),  \* 1118
       Paragraph("Regulatory Environment", "SubsectionHeader"),  \* 1121
       Paragraph("<b>5G Spectrum Allocation (Germany)</b>", "H3Header"),  \* 1123
       Prose("PremiumBody"),  \* 1128
       Paragraph("<b>Strategic Implications:</b>", "H3Header"),  \* 1130
       Prose("BulletText"),  \* 1137
       Prose("BulletText"),  \* 1137
       Prose("BulletText"),  \* 1137
       Spacer(1, 15),  \* 1139
       Paragraph("<b>Drone and Autonomous Systems Regulation</b>", "H3Header"),  \* 1140
       Prose("PremiumBody"),  \* 1145
       PageBreak  \* 1147
    >>

\* build_strategic_recommendations (line 1150): the flowables it returns, in order; the number after
\* each element is the source line that constructs it.
build_strategic_recommendations ==
    <<
       ChapterHeader(6, "Strategic Recommendations for 2026", 450),  \* 1154
       Spacer(1, 20),  \* 1155
       Paragraph("1. Product Portfolio Architecture", "SubsectionHeader"),  \* 1158
       Prose("PremiumBody"),  \* 1161
       Table(<<120, 60, 200, 70>>),  \* 1173
       Spacer(1, 20),  \* 1185
       Paragraph("2. Market Segmentation and Vertical Focus", "SubsectionHeader"),  \* 1188
       Paragraph("<b>Vertical 1: Warehouse Automation & E-Commerce Logistics</b> <font color='#C9A227'>[HIGHEST PRIORITY]</font>", "H3Header"),  \* 1202
       Prose("PremiumBody"),  \* 1203
       Paragraph("<b>Vertical 2: Autonomous Vehicles and Robotics</b> <font color='#C9A227'>[HIGH PRIORITY]</font>", "H3Header"),  \* 1202
       Prose("PremiumBody"),  \* 1203
       Paragraph("<b>Vertical 3: Industrial IoT and Smart Manufacturing</b> <font color='#C9A227'>[HIGH PRIORITY]</font>", "H3Header"),  \* 1202
       Prose("PremiumBody"),  \* 1203
       Paragraph("<b>Vertical 4: Commercial Drones</b> <font color='#C9A227'>[MEDIUM PRIORITY]</font>", "H3Header"),  \* 1202
       Prose("PremiumBody"),  \* 1203
       Spacer(1, 15),  \* 1205
       Paragraph("3. Distribution and Channel Strategy", "SubsectionHeader"),  \* 1208
       Table(<<120, 90, 240>>),  \* 1220
       Spacer(1, 15),  \* 1232
       Paragraph("4. Technical Capability Development", "SubsectionHeader"),  \* 1235
       Prose("BulletText"),  \* 1245
       Prose("BulletText"),  \* 1245
       Prose("BulletText"),  \* 1245
       Prose("BulletText"),  \* 1245
       PageBreak,  \* 1247
       Paragraph("5. Partnerships and Strategic Alliances", "SubsectionHeader"),  \* 1250
       Paragraph("<b>Tier 1 Supplier Relationships:</b>", "H3Header"),  \* 1252
       Prose("BulletText"),  \* 1259
       Prose("BulletText"),  \* 1259
       Prose("BulletText"),  \* 1259
       Paragraph("<b>Industry Partnerships:</b>", "H3Header"),  \* 1261
       Prose("BulletText"),  \* 1268
       Prose("BulletText"),  \* 1268
       Prose("BulletText"),  \* 1268
       Spacer(1, 15),  \* 1270
       Paragraph("6. Pricing and Margin Strategy", "SubsectionHeader"),  \* 1273
       Table(<<100, 70, 60, 55, 165>>),  \* 1287
       Spacer(1, 15),  \* 1299
       Paragraph("7. Marketing and Brand Positioning", "SubsectionHeader"),  \* 1302
       Prose("PremiumBody"),  \* 1306
       Paragraph("<b>Key Messages:</b>", "H3Header"),  \* 1308
       Prose("BulletText"),  \* 1316
       Prose("BulletText"),  \* 1316
       Prose("BulletText"),  \* 1316
       Prose("BulletText"),  \* 1316
       Spacer(1, 10),  \* 1319
       Table(<<130, 90, 230>>),  \* 1332
       PageBreak  \* 1348
    >>

\* build_risk_analysis (line 1351).  risks (lines 1363-1382): title, severity,
\* impact, mitigation.
risks ==
    <<
       << "Risk 1: Supply Chain Disruptions",
          "HIGH",
          "Component shortages leading to delivery delays and revenue loss.",
          "Maintain dual-source relationships; establish safety stock; develop secondary supplier relationships with Tier 2 manufacturers." >>,
       << "Risk 2: Aggressive Price Competition",
          "MEDIUM",
          "Margin compression from low-cost Asian competitors (Huawei, ZTT).",
          "Differentiate through value-added services; target premium market segments less price-sensitive." >>,
       << "Risk 3: Rapid Technology Obsolescence",
          "MEDIUM",
          "Inventory write-offs if antenna technology standards shift unexpectedly.",
          "Active monitoring of standards development (3GPP, IEEE 802.11); focus on broad multi-band solutions." >>,
       << "Risk 4: Regulatory Changes",
          "LOW",
          "Sudden spectrum band reallocation could eliminate market segments.",
          "Maintain awareness of European spectrum policy; diversify portfolio across multiple frequency bands." >>,
       << "Risk 5: Customer Concentration",
          "MEDIUM",
          "Over-reliance on 1-2 large customers creating vulnerability.",
          "Diversify customer base across verticals; develop long-term contracts with key accounts." >>,
       << "Risk 6: Competitive Response",
          "MEDIUM",
          "Kathrein or other European competitors may enter same verticals with superior resources.",
          "Establish market position early in 2026; develop defensible niches through application expertise." >>
    >>

\* the if / elif / else of lines 1387-1392; a variant with two colours swapped:
sev_color_swapped(severity) ==
    IF severity = "HIGH" THEN "#C9A227"
    ELSE IF severity = "MEDIUM" THEN "#DC2626"
    ELSE "#059669"
sev_color(severity) ==
    IF severity = "HIGH" THEN "#DC2626"
    ELSE IF severity = "MEDIUM" THEN "#C9A227"
    ELSE "#059669"

\* the body of the loop (lines 1385-1397) for one risk
risk_flowables(risk) ==
    LET title == risk[1]
        severity == risk[2]
        impact == risk[3]
        mitigation == risk[4]
    IN << Paragraph("<b>" \o title \o "</b> <font color='" \o sev_color(severity) \o "'>["
                      \o severity \o " RISK]</font>", "H3Header"),  \* 1394
          Paragraph("<b>Impact:</b> " \o impact, "PremiumBody"),  \* 1395
          Paragraph("<b>Mitigation:</b> " \o mitigation, "PremiumBody"),  \* 1396
          Spacer(1, 10) >>  \* 1397

\* the loop of lines 1385-1397 over a list of risks
RECURSIVE risk_loop(_)
risk_loop(rs) == IF Len(rs) = 0 THEN << >> ELSE risk_flowables(Head(rs)) \o risk_loop(Tail(rs))

\* build_risk_analysis with the list of risks as a parameter
build_risk_analysis_of(rs) ==
    << ChapterHeader(7, "Risk Analysis and Mitigation", 450),  \* 1355
       Spacer(1, 20),  \* 1356
       Prose("PremiumBody"),  \* 1360
       Spacer(1, 15) >>  \* 1361
    \o risk_loop(rs)
    \o << PageBreak >>  \* 1399

build_risk_analysis == build_risk_analysis_of(risks)

\* build_implementation_timeline (line 1402): the flowables it returns, in order; the number after
\* each element is the source line that constructs it.
build_implementation_timeline ==
    <<
       ChapterHeader(8, "Implementation Timeline", 450),  \* 1406
       Spacer(1, 20),  \* 1407
       Paragraph("<b>Q1 2026 (January-March)</b> <font color='#C9A227'>[FOUNDATION]</font>", "SubsectionHeader"),  \* 1444
       Prose("BulletText"),  \* 1447
       Prose("BulletText"),  \* 1447
       Prose("BulletText"),  \* 1447
       Prose("BulletText"),  \* 1447
       Prose("BulletText"),  \* 1447
       Prose("InsightText"),  \* 1449
       Spacer(1, 15),  \* 1450
       Paragraph("<b>Q2 2026 (April-June)</b> <font color='#C9A227'>[LAUNCH]</font>", "SubsectionHeader"),  \* 1444
       Prose("BulletText"),  \* 1447
       Prose("BulletText"),  \* 1447
       Prose("BulletText"),  \* 1447
       Prose("BulletText"),  \* 1447
       Prose("BulletText"),  \* 1447
       Prose("InsightText"),  \* 1449
       Spacer(1, 15),  \* 1450
       Paragraph("<b>Q3 2026 (July-September)</b> <font color='#C9A227'>[SCALE]</font>", "SubsectionHeader"),  \* 1444
       Prose("BulletText"),  \* 1447
       Prose("BulletText"),  \* 1447
       Prose("BulletText"),  \* 1447
       Prose("BulletText"),  \* 1447
       Prose("BulletText"),  \* 1447
       Prose("InsightText"),  \* 1449
       Spacer(1, 15),  \* 1450
       Paragraph("<b>Q4 2026 (October-December)</b> <font color='#C9A227'>[OPTIMIZE]</font>", "SubsectionHeader"),  \* 1444
       Prose("BulletText"),  \* 1447
       Prose("BulletText"),  \* 1447
       Prose("BulletText"),  \* 1447
       Prose("BulletText"),  \* 1447
       Prose("BulletText"),  \* 1447
       Prose("InsightText"),  \* 1449
       Spacer(1, 15),  \* 1450
       PageBreak  \* 1452
    >>

\* build_success_metrics (line 1455): the flowables it returns, in order; the number after
\* each element is the source line that constructs it.
build_success_metrics ==
    <<
       ChapterHeader(9, "Success Metrics and KPIs", 450),  \* 1459
       Spacer(1, 20),  \* 1460
       Table(<<125, 125, 125, 125>>),  \* 1472
       Spacer(1, 25),  \* 1478
       Paragraph("Financial Metrics (2026 Target)", "SubsectionHeader"),  \* 1481
       Prose("BulletText"),  \* 1492
       Prose("BulletText"),  \* 1492
       Prose("BulletText"),  \* 1492
       Prose("BulletText"),  \* 1492
       Prose("BulletText"),  \* 1492
       Prose("BulletText"),  \* 1492
       Spacer(1, 15),  \* 1494
       Paragraph("Operational Metrics", "SubsectionHeader"),  \* 1497
       Prose("BulletText"),  \* 1507
       Prose("BulletText"),  \* 1507
       Prose("BulletText"),  \* 1507
       Prose("BulletText"),  \* 1507
       Prose("BulletText"),  \* 1507
       Spacer(1, 15),  \* 1509
       Paragraph("Market Metrics", "SubsectionHeader"),  \* 1512
       Prose("BulletText"),  \* 1521
       Prose("BulletText"),  \* 1521
       Prose("BulletText"),  \* 1521
       Prose("BulletText"),  \* 1521
       Spacer(1, 15),  \* 1523
       Paragraph("Strategic Metrics", "SubsectionHeader"),  \* 1526
       Prose("BulletText"),  \* 1535
       Prose("BulletText"),  \* 1535
       Prose("BulletText"),  \* 1535
       Prose("BulletText"),  \* 1535
       PageBreak  \* 1537
    >>

\* build_conclusion (line 1540): the flowables it returns, in order; the number after
\* each element is the source line that constructs it.
build_conclusion ==
    <<
       ChapterHeader(10, "Conclusion", 450),  \* 1544
       Spacer(1, 20),  \* 1545
       Prose("PremiumBody"),  \* 1552
       Spacer(1, 15),  \* 1554
       Prose("PremiumBody"),  \* 1560
       Spacer(1, 15),  \* 1562
       Prose("Callout"),  \* 1568
       Spacer(1, 15),  \* 1570
       Prose("PremiumBody"),  \* 1576
       PageBreak  \* 1578
    >>

\* build_references (line 1581): the flowables it returns, in order; the number after
\* each element is the source line that constructs it.
build_references ==
    <<
       Paragraph("References", "SectionHeader"),  \* 1585
       Spacer(1, 15),  \* 1586
       Prose("Reference"),  \* 1624
       Prose("Reference"),  \* 1624
       Prose("Reference"),  \* 1624
       Prose("Reference"),  \* 1624
       Prose("Reference"),  \* 1624
       Prose("Reference"),  \* 1624
       Prose("Reference"),  \* 1624
       Prose("Reference"),  \* 1624
       Prose("Reference"),  \* 1624
       Prose("Reference"),  \* 1624
       Prose("Reference"),  \* 1624
       Prose("Reference"),  \* 1624
       Prose("Reference"),  \* 1624
       Prose("Reference"),  \* 1624
       Prose("Reference"),  \* 1624
       Prose("Reference"),  \* 1624
       Prose("Reference"),  \* 1624
       Prose("Reference"),  \* 1624
       Prose("Reference"),  \* 1624
       Prose("Reference"),  \* 1624
       Prose("Reference"),  \* 1624
       Prose("Reference"),  \* 1624
       Prose("Reference"),  \* 1624
       Spacer(1, 30),  \* 1626
       Paragraph("<b>Document Information</b>", "H3Header"),  \* 1629
       Prose("PremiumBody")  \* 1637
    >>
\* The builder a statement of build_premium_report calls, by name.
Builder(name) ==
    CASE name = "build_toc" -> build_toc
      [] name = "build_executive_summary" -> build_executive_summary
      [] name = "build_market_overview" -> build_market_overview
      [] name = "build_technology_trends" -> build_technology_trends
      [] name = "build_competitive_landscape" -> build_competitive_landscape
      [] name = "build_regional_insights" -> build_regional_insights
      [] name = "build_strategic_recommendations" -> build_strategic_recommendations
      [] name = "build_risk_analysis" -> build_risk_analysis
      [] name = "build_implementation_timeline" -> build_implementation_timeline
      [] name = "build_success_metrics" -> build_success_metrics
      [] name = "build_conclusion" -> build_conclusion
      [] name = "build_references" -> build_references

\* ---------------------------------------------------------------------------
\* Chart generators (lines 487-705): each draws its figure, saves it as PNG
\* into a fresh BytesIO, rewinds the buffer (buf.seek(0)), closes the figure
\* and returns the buffer.
\* ---------------------------------------------------------------------------
\* A buffer whose position was left behind the data instead of being rewound.
BytesIO_not_rewound(data, pos) == [data |-> data, pos |-> 1]
BytesIO(data, pos) == [data |-> data, pos |-> pos]
create_market_growth_chart == BytesIO("png:market_growth", 0)
create_regional_market_chart == BytesIO("png:regional_market", 0)
create_germany_market_chart == BytesIO("png:germany_market", 0)
create_cagr_comparison_chart == BytesIO("png:cagr_comparison", 0)
create_timeline_chart == BytesIO("png:timeline", 0)
create_portfolio_allocation_chart == BytesIO("png:portfolio_allocation", 0)

\* chart_func() for the chart_func handed to add_chart_to_story (line 1647).
ChartFunc(name) ==
    CASE name = "create_market_growth_chart" -> create_market_growth_chart
      [] name = "create_regional_market_chart" -> create_regional_market_chart
      [] name = "create_germany_market_chart" -> create_germany_market_chart
      [] name = "create_cagr_comparison_chart" -> create_cagr_comparison_chart
      [] name = "create_timeline_chart" -> create_timeline_chart
      [] name = "create_portfolio_allocation_chart" -> create_portfolio_allocation_chart

\* plt.subplots opens a figure and makes it current; plt.close() closes the
\* current figure, if there is one.  figs is the number of open figures.
plt_subplots(figs) == figs + 1
plt_close(figs) == IF figs > 0 THEN figs - 1 ELSE 0
\* The open figures after a chart generator returned: each of the six opens one
\* figure first (lines 489, 537, 565, 606, 638, 679) and calls plt.close()
\* before it returns (lines 531, 559, 600, 632, 673, 703).
create_chart_figures_leak(figs) == plt_subplots(figs)
create_chart_figures(figs) == plt_close(plt_subplots(figs))

\* The temporary file after the with block of add_chart_to_story (lines
\* 1648-1650): it holds what was written and is closed; delete=False keeps it.
NamedTemporaryFile(data, r) == [type |-> "png", data |-> data, run |-> r, closed |-> TRUE]

\* chart_buf.read() (line 1649): everything from the buffer's position on.
BufRead(buf) == IF buf.pos = 0 THEN buf.data ELSE ""

\* story.extend(blocks) (lines 1679-1738)
extend_front(st, blocks) == blocks \o st
extend(st, blocks) == st \o blocks

\* The four appends of add_chart_to_story (lines 1651-1654).
add_chart_two_images(st, tmp_path, width, height, caption) ==
    st \o << Spacer(1, 15), Image(tmp_path, width, height),
             Image(tmp_path, width, height),
             Paragraph(caption, "Caption"), Spacer(1, 10) >>
add_chart_image_first(st, tmp_path, width, height, caption) ==
    st \o << Image(tmp_path, width, height), Spacer(1, 15),
             Paragraph(caption, "Caption"), Spacer(1, 10) >>
add_chart_appends(st, tmp_path, width, height, caption) ==
    st \o << Spacer(1, 15), Image(tmp_path, width, height),
             Paragraph(caption, "Caption"), Spacer(1, 10) >>

\* ---------------------------------------------------------------------------
\* The statements of a run, in program order: __main__ (lines 1754-1759) and
\* the body of build_premium_report (lines 1656-1748).
\* ---------------------------------------------------------------------------
StmtMakedirs == [op |-> "makedirs"]
StmtCall == [op |-> "call"]
StmtSetup == [op |-> "setup"]
StmtAppend(item) == [op |-> "append", item |-> item]
StmtExtend(builder) == [op |-> "extend", builder |-> builder]
StmtChart(chart_func, width, height, caption) ==
    [op |-> "chart", chart_func |-> chart_func, width |-> width,
     height |-> height, caption |-> caption]
StmtBuild == [op |-> "build"]
StmtPrint == [op |-> "print"]
StmtReturn == [op |-> "return"]

Assembly ==
    << StmtAppend(PageBreak),                                  \* 1676
       StmtExtend("build_toc"),                                \* 1679
       StmtExtend("build_executive_summary"),                  \* 1682
       StmtExtend("build_market_overview"),                    \* 1685
       StmtChart("create_market_growth_chart", 450, 250,
           "Figure 1: Antenna Market Growth Projections by Segment (2024-2030)"),  \* 1688
       StmtAppend(PageBreak),                                  \* 1691
       StmtExtend("build_technology_trends"),                  \* 1694
       StmtChart("create_cagr_comparison_chart", 450, 250,
           "Figure 2: Growth Rates Comparison Across Key Market Segments"),        \* 1697
       StmtExtend("build_competitive_landscape"),              \* 1701
       StmtChart("create_regional_market_chart", 350, 230,
           "Figure 3: Global Antenna Market Distribution by Region (2025)"),       \* 1704
       StmtExtend("build_regional_insights"),                  \* 1708
       StmtChart("create_germany_market_chart", 450, 250,
           "Figure 4: Germany Key Market Segments Growth Projection"),             \* 1711
       StmtExtend("build_strategic_recommendations"),          \* 1715
       StmtChart("create_portfolio_allocation_chart", 300, 300,
           "Figure 5: Recommended Product Portfolio Allocation"),                  \* 1718
       StmtExtend("build_risk_analysis"),                      \* 1722
       StmtExtend("build_implementation_timeline"),            \* 1725
       StmtChart("create_timeline_chart", 480, 180,
           "Figure 6: 2026 Implementation Roadmap"),                               \* 1728
       StmtExtend("build_success_metrics"),                    \* 1732
       StmtExtend("build_conclusion"),                         \* 1735
       StmtExtend("build_references")                          \* 1738
    >>

\* Program with the render call moved before the last section builder.
Program_early_build ==
    << StmtMakedirs, StmtCall, StmtSetup >>
    \o SubSeq(Assembly, 1, Len(Assembly) - 1)
    \o << StmtBuild, Assembly[Len(Assembly)], StmtPrint, StmtReturn >>
\* Program with the conclusion assembled before the success metrics.
Program_swapped ==
    << StmtMakedirs, StmtCall, StmtSetup >>
    \o [i \in 1..Len(Assembly) |->
           IF i = 18 THEN Assembly[19] ELSE IF i = 19 THEN Assembly[18] ELSE Assembly[i]]
    \o << StmtBuild, StmtPrint, StmtReturn >>
\* Program that calls the first chart generator a second time for Figure 2.
Program_repeat ==
    << StmtMakedirs, StmtCall, StmtSetup >>
    \o [i \in 1..Len(Assembly) |->
           IF i = 8 THEN [Assembly[8] EXCEPT !.chart_func = "create_market_growth_chart"]
           ELSE Assembly[i]]
    \o << StmtBuild, StmtPrint, StmtReturn >>
\* Program without the page break that follows the cover.
Program_no_cover_break ==
    << StmtMakedirs, StmtCall, StmtSetup >>
    \o Tail(Assembly)
    \o << StmtBuild, StmtPrint, StmtReturn >>
Program ==
    << StmtMakedirs,        \* 1756
       StmtCall,            \* 1758-1759
       StmtSetup >>         \* 1660-1673
    \o Assembly             \* 1676-1738
    \o << StmtBuild,        \* 1741-1745
          StmtPrint,        \* 1747
          StmtReturn >>     \* 1748

\* What an exception raised by statement i does to the run: nothing in the
\* program catches it, the process ends with the traceback at i.
OnRaise_swallow(i) == [pc |-> i + 1, status |-> "running"]
OnRaise(i) == [pc |-> i, status |-> "crashed"]

\* ---------------------------------------------------------------------------
\* Inputs the environment may offer a run
\* ---------------------------------------------------------------------------
ArgvChoices == { <<>>, <<"--output", "/tmp/report.pdf">> }
EnvChoices == { {}, { <<"OUTPUT_DIR", "/tmp">> } }

\* The directories that exist before the first run: the temporary directory
\* alone, also the parent of the output directory, or the output directory too.
InitDirs ==
    { Ancestors(tempdir),
      Ancestors(tempdir) \cup Ancestors(Dirname(output_dir)),
      Ancestors(tempdir) \cup Ancestors(output_dir) }

NoFiles == [p \in {} |-> [type |-> "none"]]

\* ---------------------------------------------------------------------------
\* The stylesheet
\* ---------------------------------------------------------------------------
\* ParagraphStyle(name=..., fontName=..., fontSize=..., ...): the name, the
\* font and its size are kept.
ParagraphStyle(name, fontName, fontSize) ==
    [name |-> name, fontName |-> fontName, fontSize |-> fontSize]

\* getSampleStyleSheet() (line 333): the styles the library provides.
getSampleStyleSheet ==
    [n \in { "Normal", "BodyText", "Italic", "Heading1", "Title", "Heading2", "Heading3",
             "Heading4", "Heading5", "Heading6", "Bullet", "Definition", "Code",
             "UnorderedList", "OrderedList" } |-> [name |-> n, origin |-> "getSampleStyleSheet"]]

\* styles.add(style): the style is registered under its name.
styles_add(sheet, style) == (style.name :> style) @@ sheet

\* The styles get_premium_styles adds, in order (lines 336-478).
premium_styles ==
    <<
       ParagraphStyle("ExecTitle", "Helvetica-Bold", 28),
       ParagraphStyle("SectionHeader", "Helvetica-Bold", 22),
       ParagraphStyle("SubsectionHeader", "Helvetica-Bold", 16),
       ParagraphStyle("H3Header", "Helvetica-Bold", 13),
       ParagraphStyle("PremiumBody", "Helvetica", 10),
       ParagraphStyle("BulletText", "Helvetica", 10),
       ParagraphStyle("InsightText", "Helvetica-Oblique", 11),
       ParagraphStyle("TableHeader", "Helvetica-Bold", 9),
       ParagraphStyle("TableCell", "Helvetica", 9),
       ParagraphStyle("TOCEntry", "Helvetica", 11),
       ParagraphStyle("TOCSection", "Helvetica-Bold", 12),
       ParagraphStyle("Caption", "Helvetica-Oblique", 9),
       ParagraphStyle("Callout", "Helvetica-Bold", 14)
    >>
RECURSIVE add_all(_, _)
add_all(sheet, new) ==
    IF Len(new) = 0 THEN sheet ELSE add_all(styles_add(sheet, Head(new)), Tail(new))

\* get_premium_styles() (lines 331-481).  A variant that does not add the
\* last style:
get_premium_styles_short ==
    add_all(getSampleStyleSheet, SubSeq(premium_styles, 1, Len(premium_styles) - 1))
get_premium_styles == add_all(getSampleStyleSheet, premium_styles)

\* ref_style of build_references (lines 1614-1621), a style of its own that
\* is not added to the stylesheet.
ref_style == ParagraphStyle("Reference", "Helvetica", 8)

\* The names a function looks up in styles (styles['...']), each with the line
\* of its first lookup.
style_lookups(fn) ==
    CASE fn = "build_toc" ->  \* 715, 750, 753
           { "ExecTitle", "TOCSection", "TOCEntry" }
      [] fn = "build_executive_summary" ->  \* 794, 804, 817
           { "PremiumBody", "SubsectionHeader", "BulletText" }
      [] fn = "build_market_overview" ->  \* 831, 837, 841, 844, 871, 879
           { "SubsectionHeader", "PremiumBody", "H3Header", "TableHeader", "Caption", "Callout" }
      [] fn = "build_technology_trends" ->  \* 962, 965, 982, 997
           { "PremiumBody", "SubsectionHeader", "H3Header", "BulletText" }
      [] fn = "build_competitive_landscape" ->  \* 1012, 1015, 1019, 1071
           { "PremiumBody", "SubsectionHeader", "TableHeader", "BulletText" }
      [] fn = "build_regional_insights" ->  \* 1083, 1089, 1093, 1096, 1137
           { "SubsectionHeader", "PremiumBody", "H3Header", "TableHeader", "BulletText" }
      [] fn = "build_strategic_recommendations" ->  \* 1158, 1161, 1164, 1245, 1252
           { "SubsectionHeader", "PremiumBody", "TableHeader", "BulletText", "H3Header" }
      [] fn = "build_risk_analysis" ->  \* 1360, 1394
           { "PremiumBody", "H3Header" }
      [] fn = "build_implementation_timeline" ->  \* 1444, 1447, 1449
           { "SubsectionHeader", "BulletText", "InsightText" }
      [] fn = "build_success_metrics" ->  \* 1481, 1492
           { "SubsectionHeader", "BulletText" }
      [] fn = "build_conclusion" ->  \* 1552, 1568
           { "PremiumBody", "Callout" }
      [] fn = "build_references" ->  \* 1585, 1629, 1637
           { "SectionHeader", "H3Header", "PremiumBody" }
      [] fn = "add_chart_to_story" ->  \* 1653
           { "Caption" }
      [] OTHER -> {}

\* The stylesheet after a section builder has run: no builder adds, removes
\* or changes a style.  A variant in which build_references registers its
\* style:
styles_after_registering(builder, sheet) ==
    IF builder = "build_references" THEN styles_add(sheet, ref_style) ELSE sheet
styles_after(builder, sheet) == sheet

\* No stylesheet yet.
NoStyles == [n \in {} |-> [name |-> n]]

\* ---------------------------------------------------------------------------
\* State
\* ---------------------------------------------------------------------------
VARIABLES
    run,          \* number of the current invocation of the entry point
    argv,         \* command-line arguments of the current run
    environ,      \* environment variables of the current run
    pc,           \* index in Program of the statement to execute next
    status,       \* "running", "exited" (normal exit) or "crashed"
    output_path,  \* parameter of build_premium_report: <<>> before the call
    story,        \* the list story of build_premium_report
    handed,       \* the story as it was when doc.build was called
    buildCalls,   \* calls of doc.build in this run
    stdout,       \* lines printed by this run
    retval,       \* value returned by build_premium_report: <<>> if none yet
    openFigures,  \* figures the plotting library holds open in this process
    styles,       \* the stylesheet of build_premium_report: none before the setup
    log,          \* statements of this run that completed, in order
    raised,       \* statements of this run that raised an exception
    dirs,         \* directories that exist
    files,        \* files that exist: path -> content
    tmpSeq,       \* temporary files created so far on this machine
    dirsAtStart,  \* dirs when the current run started
    filesAtStart, \* files when the current run started
    call,         \* a single function applied on its own: its name and inputs
    result        \* what that function has produced so far

vars == << run, argv, environ, pc, status, output_path, story, handed, buildCalls,
           stdout, retval, openFigures, styles, log, raised, dirs, files, tmpSeq, dirsAtStart,
           filesAtStart, call, result >>

procVars == << output_path, story, handed, buildCalls, stdout, retval, openFigures, styles >>
fsVars == << dirs, files, tmpSeq >>
runVars == << run, argv, environ, dirsAtStart, filesAtStart >>
unitVars == << call, result >>
mainVars == << run, argv, environ, pc, status, output_path, story, handed, buildCalls,
               stdout, retval, openFigures, styles, log, raised, dirs, files, tmpSeq,
               dirsAtStart, filesAtStart >>

\* No function is being applied on its own.
NoCall == [fn |-> "none"]

MainInit ==
    /\ run = 1
    /\ argv \in ArgvChoices
    /\ environ \in EnvChoices
    /\ pc = 1
    /\ status = "running"
    /\ output_path = <<>>
    /\ story = <<>>
    /\ handed = <<>>
    /\ buildCalls = 0
    /\ stdout = <<>>
    /\ retval = <<>>
    /\ openFigures = 0
    /\ styles = NoStyles
    /\ log = <<>>
    /\ raised = {}
    /\ dirs \in InitDirs
    /\ files = NoFiles
    /\ tmpSeq = 0
    /\ dirsAtStart = dirs
    /\ filesAtStart = files

Init ==
    /\ MainInit
    /\ call = NoCall
    /\ result = <<>>

Running == status = "running" /\ pc \in 1..Len(Program)
Stmt == Program[pc]

\* The statement at pc completed: control moves to the next one.
Advance ==
    /\ pc' = pc + 1
    /\ status' = IF Stmt.op = "return" THEN "exited" ELSE "running"
    /\ log' = Append(log, pc)
    /\ raised' = raised
    /\ UNCHANGED unitVars

\* The statement at pc raised.
Raise ==
    /\ pc' = OnRaise(pc).pc
    /\ status' = OnRaise(pc).status
    /\ log' = log
    /\ raised' = raised \cup {pc}
    /\ UNCHANGED unitVars

\* Sets or replaces the content of one file.
WriteFile(fs, path, content) == (path :> content) @@ fs

\* os.makedirs(output_dir, exist_ok=True), line 1756
Makedirs ==
    /\ Running /\ Stmt.op = "makedirs"
    /\ \E permitted \in BOOLEAN :
         LET r == makedirs(dirs, DOMAIN files, output_dir, TRUE, permitted) IN
           /\ ~r.raised
           /\ dirs' = r.dirs
    /\ Advance
    /\ UNCHANGED << files, tmpSeq, procVars, runVars >>

MakedirsRaise ==
    /\ Running /\ Stmt.op = "makedirs"
    /\ \E permitted \in BOOLEAN :
         makedirs(dirs, DOMAIN files, output_dir, TRUE, permitted).raised
    /\ Raise
    /\ UNCHANGED << fsVars, procVars, runVars >>

\* output_file = os.path.join(...); build_premium_report(output_file),
\* lines 1758-1759 and 1656
CallBuild ==
    /\ Running /\ Stmt.op = "call"
    /\ output_path' = << output_file >>
    /\ Advance
    /\ UNCHANGED << styles, story, handed, buildCalls, stdout, retval, openFigures, fsVars, runVars >>

\* doc = SimpleDocTemplate(output_path, ...); styles = get_premium_styles();
\* story = [], lines 1660-1673
Setup ==
    /\ Running /\ Stmt.op = "setup"
    /\ styles' = get_premium_styles
    /\ story' = <<>>
    /\ Advance
    /\ UNCHANGED << output_path, handed, buildCalls, stdout, retval, openFigures, fsVars, runVars >>

\* story.append(PageBreak()), lines 1676 and 1691
AppendStmt ==
    /\ Running /\ Stmt.op = "append"
    /\ story' = Append(story, Stmt.item)
    /\ Advance
    /\ UNCHANGED << styles, output_path, handed, buildCalls, stdout, retval, openFigures, fsVars, runVars >>

\* story.extend(build_xxx(styles))
ExtendStmt ==
    /\ Running /\ Stmt.op = "extend"
    /\ style_lookups(Stmt.builder) \subseteq DOMAIN styles
    /\ story' = extend(story, Builder(Stmt.builder))
    /\ styles' = styles_after(Stmt.builder, styles)
    /\ Advance
    /\ UNCHANGED << output_path, handed, buildCalls, stdout, retval, openFigures, fsVars, runVars >>

\* build_xxx(styles) raises
ExtendRaise ==
    /\ Running /\ Stmt.op = "extend"
    /\ Raise
    /\ UNCHANGED << procVars, fsVars, runVars >>

\* add_chart_to_story(story, chart_func, width, height, caption, styles),
\* lines 1645-1654: the chart, the temporary file (kept: delete=False), the
\* four appends.
AddChart ==
    /\ Running /\ Stmt.op = "chart"
    /\ tempdir \in dirs
    /\ style_lookups("add_chart_to_story") \subseteq DOMAIN styles
    /\ LET chart_buf == ChartFunc(Stmt.chart_func)
           tmp_path == TmpPath(tmpSeq + 1)
       IN /\ files' = WriteFile(files, tmp_path, NamedTemporaryFile(BufRead(chart_buf), run))
          /\ tmpSeq' = tmpSeq + 1
          /\ story' = add_chart_appends(story, tmp_path, Stmt.width, Stmt.height, Stmt.caption)
    /\ openFigures' = create_chart_figures(openFigures)
    /\ Advance
    /\ UNCHANGED << styles, output_path, handed, buildCalls, stdout, retval, dirs, runVars >>

\* chart_func() raises (line 1647): nothing was written yet; the figure may
\* have been opened already, and then it is still open.
AddChartRaiseChart ==
    /\ Running /\ Stmt.op = "chart"
    /\ openFigures' \in { openFigures, plt_subplots(openFigures) }
    /\ Raise
    /\ UNCHANGED << styles, output_path, story, handed, buildCalls, stdout, retval, fsVars, runVars >>

\* NamedTemporaryFile or tmp.write raises (lines 1648-1649): the file may have
\* been created already, and then it stays, with whatever was written.
AddChartRaiseTmp ==
    /\ Running /\ Stmt.op = "chart"
    /\ \E created \in BOOLEAN :
         IF created /\ tempdir \in dirs
         THEN /\ files' = WriteFile(files, TmpPath(tmpSeq + 1), NamedTemporaryFile("", run))
              /\ tmpSeq' = tmpSeq + 1
         ELSE UNCHANGED << files, tmpSeq >>
    /\ openFigures' = create_chart_figures(openFigures)
    /\ Raise
    /\ UNCHANGED << styles, output_path, story, handed, buildCalls, stdout, retval, dirs, runVars >>

\* Positions of the flowables of one kind in a story.
Positions(st, kind) == { i \in 1..Len(st) : st[i].kind = kind }

\* The files the Images of a story refer to.
ImagePaths(st) == { st[i].path : i \in Positions(st, "Image") }

\* doc.build can lay the story out and write the PDF: the directory of the
\* output file exists, the output path is not a directory, every image file is
\* there.
Renderable ==
    /\ output_path # <<>>
    /\ Dirname(output_path[1]) \in dirs
    /\ output_path[1] \notin dirs
    /\ ImagePaths(story) \subseteq DOMAIN files

\* doc.build(story, onFirstPage=..., onLaterPages=...), lines 1741-1745.
\* The layout engine takes the flowables off the front of the list it is
\* given, so the call leaves story empty; it writes the PDF at the end.
DocBuild ==
    /\ Running /\ Stmt.op = "build"
    /\ Renderable
    /\ handed' = story
    /\ buildCalls' = buildCalls + 1
    /\ story' = <<>>
    /\ files' = WriteFile(files, output_path[1], [type |-> "pdf", data |-> "complete", run |-> run])
    /\ Advance
    /\ UNCHANGED << styles, output_path, stdout, retval, openFigures, dirs, tmpSeq, runVars >>

\* How many flowables doc.build has taken off the story when it raises.  The
\* text and tables are the same on every run; what differs from run to run is
\* the canvas and cover page at the start (0 taken), an Image, whose file is
\* read when the engine handles it (the Image is taken), and the writing of
\* the file at the end (all taken).
RaisePoints(st) == {0} \cup Positions(st, "Image") \cup {Len(st)}

\* doc.build raises: during layout (after k flowables were taken), or while
\* writing the file, which may leave a truncated file behind.
DocBuildRaise ==
    /\ Running /\ Stmt.op = "build"
    /\ handed' = story
    /\ buildCalls' = buildCalls + 1
    /\ \E k \in RaisePoints(story) : story' = SubSeq(story, k + 1, Len(story))
    /\ \E truncated \in BOOLEAN :
         IF truncated /\ Renderable /\ story' = <<>>
         THEN files' = WriteFile(files, output_path[1],
                           [type |-> "pdf", data |-> "truncated", run |-> run])
         ELSE files' = files
    /\ Raise
    /\ UNCHANGED << styles, output_path, stdout, retval, openFigures, dirs, tmpSeq, runVars >>

\* print(f"Premium report generated: {output_path}"), line 1747
PrintStmt ==
    /\ Running /\ Stmt.op = "print"
    /\ stdout' = Append(stdout, [msg |-> "Premium report generated", path |-> output_path[1]])
    /\ Advance
    /\ UNCHANGED << styles, output_path, story, handed, buildCalls, retval, openFigures, fsVars, runVars >>

\* return output_path, line 1748; the script ends
ReturnStmt ==
    /\ Running /\ Stmt.op = "return"
    /\ retval' = output_path
    /\ Advance
    /\ UNCHANGED << styles, output_path, story, handed, buildCalls, stdout, openFigures, fsVars, runVars >>

\* The entry point is invoked again, in a new process, after the previous run
\* ended: only the file system carries over.
StartRun ==
    /\ status \in {"exited", "crashed"}
    /\ run < MaxRuns
    /\ run' = run + 1
    /\ argv' \in ArgvChoices
    /\ environ' \in EnvChoices
    /\ pc' = 1
    /\ status' = "running"
    /\ output_path' = <<>>
    /\ story' = <<>>
    /\ handed' = <<>>
    /\ buildCalls' = 0
    /\ stdout' = <<>>
    /\ retval' = <<>>
    /\ openFigures' = 0
    /\ styles' = NoStyles
    /\ log' = <<>>
    /\ raised' = {}
    /\ dirsAtStart' = dirs
    /\ filesAtStart' = files
    /\ UNCHANGED fsVars
    /\ UNCHANGED unitVars

\* One step of the running process.
Step ==
    \/ Makedirs
    \/ MakedirsRaise
    \/ CallBuild
    \/ Setup
    \/ AppendStmt
    \/ ExtendStmt
    \/ ExtendRaise
    \/ AddChart
    \/ AddChartRaiseChart
    \/ AddChartRaiseTmp
    \/ DocBuild
    \/ DocBuildRaise
    \/ PrintStmt
    \/ ReturnStmt

Next == Step \/ StartRun

Spec == Init /\ [][Next]_vars

\* The process is scheduled until it exits or dies: a blocking call returns
\* or raises.
LiveSpec == Init /\ [][Next]_vars /\ WF_vars(Step)

\* ---------------------------------------------------------------------------
\* Drawing code applied on its own: text is a sequence of characters.
\* ---------------------------------------------------------------------------
\* Longest label, in characters, the wrap is tried on.
MaxLabelLen == 5
\* Characters labels are made of: a narrow letter, a wide letter, the space.
Chars == { "i", "W", " " }
\* Box widths and heights the drawing is tried with; 120 and 80 are the
\* defaults of KeyMetricBox.__init__ (line 94).
BoxWidths == { 17, 19, 25, 120 }
BoxHeights == { 60, 80 }

\* All texts of at most n characters.
Texts(n) == UNION { [1..k -> Chars] : k \in 0..n }

\* Glyph widths of Helvetica in 1/1000 of the font size.
GlyphWidth(c) == CASE c = " " -> 278 [] c = "i" -> 222 [] c = "W" -> 944

RECURSIVE GlyphSum(_)
GlyphSum(text) ==
    IF Len(text) = 0 THEN 0 ELSE GlyphWidth(Head(text)) + GlyphSum(Tail(text))

\* canv.stringWidth(text, "Helvetica", 9) in 1/1000 point (line 127).
stringWidth(text) == 9 * GlyphSum(text)

\* label.split() (line 122): the maximal runs of non-space characters.
\* cur is the run being read.
RECURSIVE SplitFrom(_, _)
SplitFrom(text, cur) ==
    IF Len(text) = 0
    THEN IF Len(cur) > 0 THEN << cur >> ELSE << >>
    ELSE IF Head(text) = " "
         THEN (IF Len(cur) > 0 THEN << cur >> ELSE << >>) \o SplitFrom(Tail(text), << >>)
         ELSE SplitFrom(Tail(text), Append(cur, Head(text)))
split(text) == SplitFrom(text, << >>)

\* The loop of lines 125-133 from word i on, then lines 134-135.
\* A variant without the append after the loop:
RECURSIVE wrap_lose_last(_, _, _, _, _)
wrap_lose_last(words, i, current_line, lines, box_width) ==
    IF i > Len(words)
    THEN lines
    ELSE LET word == words[i]
             test_line == IF Len(current_line) > 0 THEN current_line \o << " " >> \o word ELSE word
         IN IF stringWidth(test_line) < 1000 * (box_width - 16)
            THEN wrap_lose_last(words, i + 1, test_line, lines, box_width)
            ELSE wrap_lose_last(words, i + 1, word,
                     IF Len(current_line) > 0 THEN Append(lines, current_line) ELSE lines,
                     box_width)
RECURSIVE wrap(_, _, _, _, _)
wrap(words, i, current_line, lines, box_width) ==
    IF i > Len(words)
    THEN IF Len(current_line) > 0 THEN Append(lines, current_line) ELSE lines
    ELSE LET word == words[i]
             test_line == IF Len(current_line) > 0 THEN current_line \o << " " >> \o word ELSE word
         IN IF stringWidth(test_line) < 1000 * (box_width - 16)
            THEN wrap(words, i + 1, test_line, lines, box_width)
            ELSE wrap(words, i + 1, word,
                     IF Len(current_line) > 0 THEN Append(lines, current_line) ELSE lines,
                     box_width)

\* lines[:2] (line 138)
first_three(lines) == SubSeq(lines, 1, IF Len(lines) < 3 THEN Len(lines) ELSE 3)
first_two(lines) == SubSeq(lines, 1, IF Len(lines) < 2 THEN Len(lines) ELSE 2)

\* class KeyMetricBox, __init__ (lines 94-100)
KeyMetricBox(value, label, width, height) ==
    [value |-> value, label |-> label, box_width |-> width, box_height |-> height]

\* canv.drawCentredString(box_width/2, y, text): x is kept as box_width over 2.
drawCentredString(box_width, y, text) ==
    [op |-> "drawCentredString", x_num |-> box_width, x_den |-> 2, y |-> y, text |-> text]

\* KeyMetricBox.draw (lines 105-140): the wrapped lines and what is painted:
\* background, accent bar, value, then the label lines 12 points apart.
KeyMetricBox_draw(self) ==
    LET lines == wrap(split(self.label), 1, << >>, << >>, self.box_width)
        shown == first_two(lines)
    IN [lines |-> lines,
        canv |-> << [op |-> "roundRect", x |-> 0, y |-> 0,
                     width |-> self.box_width, height |-> self.box_height],
                    [op |-> "rect", x |-> 0, y |-> self.box_height - 4,
                     width |-> self.box_width, height |-> 4],
                    drawCentredString(self.box_width, self.box_height - 35, self.value) >>
                 \o [k \in 1..Len(shown) |->
                       drawCentredString(self.box_width, self.box_height - 55 - 12 * (k - 1), shown[k])]]

\* colors.HexColor: the three channels in 1/255.
HexColor(r, g, b) == [red |-> r, green |-> g, blue |-> b]
\* class PremiumColors (lines 36, 41, 43, 46)
NAVY_DARK == HexColor(10, 22, 40)
GOLD == HexColor(201, 162, 39)
TEAL == HexColor(8, 145, 178)
WHITE == HexColor(255, 255, 255)
Palette == { NAVY_DARK, GOLD, TEAL, WHITE }
\* Sizes the gradient is tried with.
RectSizes == { << 450, 3 >>, << 100, 40 >> }

\* class GradientRect, __init__ (lines 68-74)
GradientRect(width, height, color1, color2, direction) ==
    [width |-> width, height |-> height, color1 |-> color1, color2 |-> color2,
     direction |-> direction]

\* steps (line 78)
steps == 50

\* GradientRect.draw (lines 76-90): one filled rectangle per i in range(steps),
\* in drawing order.  ratio = i / steps, so the channels are kept exactly, in
\* 1/(255 * steps), and the geometry in 1/steps point.  A variant whose ratio
\* is taken after the strip:
GradientRect_draw_late(self) ==
    [n \in 1..steps |->
        LET i == n
        IN [red |-> steps * self.color1.red + (self.color2.red - self.color1.red) * i,
            green |-> steps * self.color1.green + (self.color2.green - self.color1.green) * i,
            blue |-> steps * self.color1.blue + (self.color2.blue - self.color1.blue) * i,
            x |-> IF self.direction = "horizontal" THEN (n - 1) * self.width ELSE 0,
            y |-> IF self.direction = "horizontal" THEN 0 ELSE (n - 1) * self.height,
            width |-> IF self.direction = "horizontal" THEN self.width + steps ELSE steps * self.width,
            height |-> IF self.direction = "horizontal" THEN steps * self.height ELSE self.height + steps]]
GradientRect_draw(self) ==
    [n \in 1..steps |->
        LET i == n - 1
        IN [red |-> steps * self.color1.red + (self.color2.red - self.color1.red) * i,
            green |-> steps * self.color1.green + (self.color2.green - self.color1.green) * i,
            blue |-> steps * self.color1.blue + (self.color2.blue - self.color1.blue) * i,
            x |-> IF self.direction = "horizontal" THEN i * self.width ELSE 0,
            y |-> IF self.direction = "horizontal" THEN 0 ELSE i * self.height,
            width |-> IF self.direction = "horizontal" THEN self.width + steps ELSE steps * self.width,
            height |-> IF self.direction = "horizontal" THEN steps * self.height ELSE self.height + steps]]

GradientRectCalls ==
    { [fn |-> "GradientRect.draw", self |-> GradientRect(sz[1], sz[2], c1, c2, d)] :
        sz \in RectSizes, c1 \in Palette, c2 \in Palette, d \in { "horizontal", "vertical" } }

\* Longest list of risks build_risk_analysis is tried on, besides its own.
MaxRisks == 3
\* Severities tried: the three the code names, and two it does not.
Severities == { "HIGH", "MEDIUM", "LOW", "CRITICAL", "" }
\* All lists of at most n risks with these severities.
RiskLists(n) ==
    UNION { [1..k -> { << "Risk", sev, "impact", "mitigation" >> : sev \in Severities }] : k \in 0..n }
RiskCalls ==
    { [fn |-> "build_risk_analysis", risks |-> rs] : rs \in RiskLists(MaxRisks) \cup { risks } }

\* The story build_premium_report has assembled after the first n statements
\* of Program, the temporary files numbered in the order they are created.
RECURSIVE StoryAfter(_)
StoryAfter(n) ==
    IF n = 0 THEN << >>
    ELSE LET s == Program[n]
         IN CASE s.op = "setup" -> << >>
              [] s.op = "append" -> Append(StoryAfter(n - 1), s.item)
              [] s.op = "extend" -> extend(StoryAfter(n - 1), Builder(s.builder))
              [] s.op = "chart" ->
                   add_chart_appends(StoryAfter(n - 1),
                       TmpPath(Cardinality({ j \in 1..n : Program[j].op = "chart" })),
                       s.width, s.height, s.caption)
              [] OTHER -> StoryAfter(n - 1)
\* The story given to doc.build (line 1741).
AssembledStory == StoryAfter((CHOOSE i \in 1..Len(Program) : Program[i].op = "build") - 1)

\* Page overflows (a flowable that does not fit the rest of its page) tried in
\* one layout.
MaxOverflows == 2

\* create_cover_page(canvas, doc) (lines 198-286): the texts it draws.
create_cover_page(page) ==
    [callback |-> "create_cover_page", page |-> page,
     drawn |-> { "STRATEGIC MARKET INTELLIGENCE REPORT", "Global Antenna", "Market Strategy",
                 "2026", "IoT and Robotics/Autonomous Systems Focus",
                 "For German IoT Components Distributor & Systems Integrator",
                 "KEY MARKET HIGHLIGHTS",
                 "December 2025  |  Strategic Planning Document  |  Classification: Confidential",
                 "CRIMSON SUN", "TECHNOLOGIES", "An Interstates & Vagabonds Company" }]

\* page_header_footer(canvas, doc) (lines 288-325): the texts it draws; page is
\* doc.page.  A variant that counts the pages after the cover:
page_header_footer_after_cover(page) ==
    [callback |-> "page_header_footer", page |-> page,
     drawn |-> { "Global Antenna Market Strategy Report 2026",
                 "Crimson Sun Technologies  |  IoT & Robotics/Autonomous Systems  |  German Market Focus",
                 "Page " \o ToString(page - 1),
                 "CONFIDENTIAL" }]
page_header_footer(page) ==
    [callback |-> "page_header_footer", page |-> page,
     drawn |-> { "Global Antenna Market Strategy Report 2026",
                 "Crimson Sun Technologies  |  IoT & Robotics/Autonomous Systems  |  German Market Focus",
                 "Page " \o ToString(page),
                 "CONFIDENTIAL" }]

OnPage(name, page) ==
    CASE name = "create_cover_page" -> create_cover_page(page)
      [] name = "page_header_footer" -> page_header_footer(page)

\* doc.build(story, onFirstPage=..., onLaterPages=...) (lines 1741-1745) as the
\* layout engine runs it: before any flowable.
LayoutStart ==
    [phase |-> "laying", taken |-> 0, page |-> 0, pending |-> TRUE, onPage |-> 0,
     overflows |-> 0, events |-> << >>, placedFrom |-> 0, placedTo |-> 0, tocPage |-> 0]

\* A page begins: doc.page is counted up and the page's callback runs, the
\* onFirstPage one on page 1 and the onLaterPages one on every later page.
BeginPage(lay, c) ==
    [lay EXCEPT !.page = lay.page + 1,
                !.pending = FALSE,
                !.onPage = 0,
                !.events = Append(lay.events,
                              OnPage(IF lay.page + 1 = 1 THEN c.onFirstPage ELSE c.onLaterPages,
                                     lay.page + 1))]
\* The page that was ended is followed by a new one before anything else is
\* handled.
Ready(lay, c) == IF lay.pending THEN BeginPage(lay, c) ELSE lay

\* The flowable f was put on the pages from..to.
Placed(lay, f, from, to) ==
    [lay EXCEPT !.taken = lay.taken + 1,
                !.onPage = lay.onPage + 1,
                !.placedFrom = from,
                !.placedTo = to,
                !.tocPage = IF "text" \in DOMAIN f /\ f.text = "Table of Contents" /\ lay.tocPage = 0
                            THEN from ELSE lay.tocPage]

DocBuildCalls ==
    { [fn |-> "doc.build", story |-> AssembledStory,
       onFirstPage |-> "create_cover_page", onLaterPages |-> "page_header_footer"] }

\* Longest title the line of the table of contents is tried on, besides the
\* program's own.
MaxTitleLen == 24
\* Entries tried: unnumbered and numbered, titles of every length, one-digit
\* and two-digit pages; and the entries of toc_items.
TocItems ==
    { << num, [i \in 1..n |-> "x"], page >> :
        num \in { << >>, << "1" >>, << "1", "0" >> },
        n \in 0..MaxTitleLen,
        page \in { << "3" >>, << "2", "6" >> } }
    \cup { << chars(toc_items[i][1]), chars(toc_items[i][2]), chars(toc_items[i][3]) >> :
             i \in 1..Len(toc_items) }
TocCalls == { [fn |-> "build_toc", item |-> item] : item \in TocItems }

KeyMetricBoxCalls ==
    { [fn |-> "KeyMetricBox.draw", self |-> KeyMetricBox("20%", label, w, h)] :
        label \in Texts(MaxLabelLen), w \in BoxWidths, h \in BoxHeights }

\* The functions that are applied on their own, each to every input of its set.
UnitCalls == KeyMetricBoxCalls \cup GradientRectCalls \cup RiskCalls \cup DocBuildCalls \cup TocCalls

UnitInit ==
    /\ MainInit
    /\ argv = << >>
    /\ environ = {}
    /\ dirs = Ancestors(tempdir)
    /\ call \in UnitCalls
    /\ result = << >>

\* One call of KeyMetricBox.draw
DrawKeyMetricBox ==
    /\ call.fn = "KeyMetricBox.draw"
    /\ result = << >>
    /\ result' = << KeyMetricBox_draw(call.self) >>
    /\ UNCHANGED << call, mainVars >>

\* One call of GradientRect.draw
DrawGradientRect ==
    /\ call.fn = "GradientRect.draw"
    /\ result = << >>
    /\ result' = << GradientRect_draw(call.self) >>
    /\ UNCHANGED << call, mainVars >>

\* One call of the loop and tail of build_risk_analysis on a list of risks
BuildRiskAnalysis ==
    /\ call.fn = "build_risk_analysis"
    /\ result = << >>
    /\ result' = << build_risk_analysis_of(call.risks) >>
    /\ UNCHANGED << call, mainVars >>

\* One pass of the loop of build_toc (lines 748-758) on one entry
BuildTocLine ==
    /\ call.fn = "build_toc"
    /\ result = << >>
    /\ result' = << slice80(toc_text(call.item[1], call.item[2], call.item[3])) >>
    /\ UNCHANGED << call, mainVars >>

Laying == call.fn = "doc.build" /\ result # << >> /\ result[1].phase = "laying"
NextFlowable == call.story[result[1].taken + 1]

\* doc.build starts: page 1 begins.
LayoutBegin ==
    /\ call.fn = "doc.build"
    /\ result = << >>
    /\ result' = << BeginPage(LayoutStart, call) >>
    /\ UNCHANGED << call, mainVars >>

\* The next flowable is a PageBreak: the page ends.
LayoutPageBreak ==
    /\ Laying
    /\ result[1].taken < Len(call.story)
    /\ NextFlowable.kind = "PageBreak"
    /\ result' = << [Ready(result[1], call) EXCEPT !.taken = result[1].taken + 1,
                                                  !.pending = TRUE] >>
    /\ UNCHANGED << call, mainVars >>

\* The next flowable fits the page.
LayoutPlace ==
    /\ Laying
    /\ result[1].taken < Len(call.story)
    /\ NextFlowable.kind # "PageBreak"
    /\ LET lay == Ready(result[1], call)
       IN result' = << Placed(lay, NextFlowable, lay.page, lay.page) >>
    /\ UNCHANGED << call, mainVars >>

\* The next flowable does not fit the rest of a page that has content: a new
\* page begins; a paragraph or a table may leave its first part on the old one.
LayoutOverflow ==
    /\ Laying
    /\ result[1].taken < Len(call.story)
    /\ NextFlowable.kind # "PageBreak"
    /\ result[1].overflows < MaxOverflows
    /\ LET lay == Ready(result[1], call)
           next == BeginPage(lay, call)
       IN /\ lay.onPage > 0
          /\ \E parted \in (IF NextFlowable.kind \in { "Paragraph", "Table" } THEN BOOLEAN ELSE { FALSE }) :
                result' = << [Placed(next, NextFlowable, IF parted THEN lay.page ELSE next.page, next.page)
                                EXCEPT !.overflows = lay.overflows + 1] >>
    /\ UNCHANGED << call, mainVars >>

\* The file of the next Image cannot be read: doc.build raises.
LayoutRaise ==
    /\ Laying
    /\ result[1].taken < Len(call.story)
    /\ NextFlowable.kind = "Image"
    /\ result' = << [result[1] EXCEPT !.phase = "raised"] >>
    /\ UNCHANGED << call, mainVars >>

\* No flowable is left: the document is written.
LayoutEnd ==
    /\ Laying
    /\ result[1].taken = Len(call.story)
    /\ result' = << [result[1] EXCEPT !.phase = "done", !.pending = FALSE] >>
    /\ UNCHANGED << call, mainVars >>

UnitNext ==
    \/ DrawKeyMetricBox
    \/ DrawGradientRect
    \/ BuildRiskAnalysis
    \/ BuildTocLine
    \/ LayoutBegin
    \/ LayoutPageBreak
    \/ LayoutPlace
    \/ LayoutOverflow
    \/ LayoutRaise
    \/ LayoutEnd

UnitSpec == UnitInit /\ [][UnitNext]_vars

\* ---------------------------------------------------------------------------
\* The document: SimpleDocTemplate(output_path, pagesize=A4, rightMargin=50,
\* leftMargin=50, ...) (lines 1660-1667).  Lengths in 1/100 point.
\* ---------------------------------------------------------------------------
\* A4[0], 210 mm = 595.2756 points, rounded up
A4_width == 59528
rightMargin == 5000
leftMargin == 5000
\* The width between the margins.
ContentWidth == A4_width - leftMargin - rightMargin

\* sum(colWidths)
RECURSIVE Sum(_)
Sum(s) == IF Len(s) = 0 THEN 0 ELSE Head(s) + Sum(Tail(s))

\* The width a flowable of fixed width takes, in 1/100 point: the column
\* widths of a Table, the width of an Image, the width of a ChapterHeader.
FixedWidth(f) ==
    CASE f.kind = "Table" -> 100 * Sum(f.colWidths)
      [] f.kind = "Image" -> 100 * f.width
      [] f.kind = "ChapterHeader" -> 100 * f.header_width

\* ---------------------------------------------------------------------------
\* Vocabulary of the properties
\* ---------------------------------------------------------------------------
IsPrefix(s, t) == Len(s) <= Len(t) /\ SubSeq(t, 1, Len(s)) = s
IsSuffix(s, t) == Len(s) <= Len(t) /\ SubSeq(t, Len(t) - Len(s) + 1, Len(t)) = s

\* Positions of the Paragraphs with a given text and style.
TextPositions(st, text, style) ==
    { i \in 1..Len(st) : /\ st[i].kind = "Paragraph"
                         /\ "text" \in DOMAIN st[i]
                         /\ st[i].text = text
                         /\ st[i].style = style }
\* Positions of the lines of the table of contents.
TocPositions(st) ==
    { i \in 1..Len(st) : st[i].kind = "Paragraph" /\ st[i].style \in {"TOCSection", "TOCEntry"} }

\* Statements of the program by kind, and those among them that completed or
\* were entered (completed or raised) in this run.
StmtsOf(ops) == { i \in 1..Len(Program) : Program[i].op \in ops }
Completed == { log[i] : i \in 1..Len(log) }
\* How often statement i completed in this run.
TimesCompleted(i) == Cardinality({ j \in 1..Len(log) : log[j] = i })
\* How often a section builder / a chart generator was called in this run.
BuilderCalls(b) ==
    Cardinality({ j \in 1..Len(log) : Program[log[j]].op = "extend" /\ Program[log[j]].builder = b })
    + Cardinality({ i \in raised : Program[i].op = "extend" /\ Program[i].builder = b })
ChartCalls(f) ==
    Cardinality({ j \in 1..Len(log) : Program[log[j]].op = "chart" /\ Program[log[j]].chart_func = f })
    + Cardinality({ i \in raised : Program[i].op = "chart" /\ Program[i].chart_func = f })

SectionBuilders ==
    { "build_toc", "build_executive_summary", "build_market_overview",
      "build_technology_trends", "build_competitive_landscape", "build_regional_insights",
      "build_strategic_recommendations", "build_risk_analysis",
      "build_implementation_timeline", "build_success_metrics", "build_conclusion",
      "build_references" }
ChartGenerators ==
    { "create_market_growth_chart", "create_regional_market_chart",
      "create_germany_market_chart", "create_cagr_comparison_chart",
      "create_timeline_chart", "create_portfolio_allocation_chart" }

\* Flowables a statement adds to the story, and the length of the story after
\* the first n statements.
BlockCount(s) ==
    CASE s.op = "append" -> 1
      [] s.op = "extend" -> Len(Builder(s.builder))
      [] s.op = "chart" -> 4
      [] OTHER -> 0
RECURSIVE BlocksUpTo(_)
BlocksUpTo(n) == IF n = 0 THEN 0 ELSE BlocksUpTo(n - 1) + BlockCount(Program[n])

\* The one place the report is expected at.
FixedPath ==
    AbsPath(<<"Users", "philippholke", "Crimson Sun", "bane", "output",
              "Global_IoT_Robotics_Antenna_Market_Strategy_2026_Premium.pdf">>)
PdfFiles == { p \in DOMAIN files : files[p].type = "pdf" }
\* What this run wrote or created and is still there.
LeftByRun == { p \in DOMAIN files : files[p].run = run } \cup (dirs \ dirsAtStart)

\* ---------------------------------------------------------------------------
\* C1: on every run, whatever the command line and the environment hold, the
\* path handed to build_premium_report is the one hardcoded absolute path:
\* the fixed directory joined with the fixed file name.
\* ---------------------------------------------------------------------------
C1_PathIsHardcoded == output_path # <<>> => output_path = << FixedPath >>
C1_Witness == output_path # <<>> /\ argv # <<>> /\ environ # {} /\ run = 2

\* ---------------------------------------------------------------------------
\* C2: after a run that completes, the only thing the run created or wrote
\* that still exists is the output PDF; no chart image file persists.
\* ---------------------------------------------------------------------------
C2_OnlyPdfPersists == status = "exited" => LeftByRun = { FixedPath }

\* ---------------------------------------------------------------------------
\* C3 as stated: when the output directory does not exist at the start, the
\* run does not complete: it ends with an uncaught error and no PDF.
\* ---------------------------------------------------------------------------
C3_MissingDirIsFatal == output_dir \notin dirsAtStart => status # "exited"

\* C3 as amended: the entry point handles a missing output directory: once
\* os.makedirs has returned, the directory exists, and a run that started
\* without it and completes has written the complete PDF into it.
C3_MissingDirIsCreated ==
    /\ (\E i \in Completed : Program[i].op = "makedirs") => output_dir \in dirs
    /\ (output_dir \notin dirsAtStart /\ status = "exited") =>
          /\ FixedPath \in DOMAIN files
          /\ files[FixedPath] = [type |-> "pdf", data |-> "complete", run |-> run]
C3_Witness == output_dir \notin dirsAtStart /\ status = "exited"

\* ---------------------------------------------------------------------------
\* C4: doc.build is called at most once per run and exactly once in a run
\* that completes; when it is called every append, section builder and chart
\* statement has completed exactly once, and from then on the story only
\* loses flowables (to the layout engine): nothing is appended.
\* ---------------------------------------------------------------------------
C4_RenderOnceAtEnd ==
    /\ buildCalls <= 1
    /\ status = "exited" => buildCalls = 1
    /\ buildCalls >= 1 =>
          /\ \A i \in StmtsOf({"append", "extend", "chart"}) : TimesCompleted(i) = 1
          /\ Len(handed) = BlocksUpTo(Len(Program))
          /\ IsSuffix(story, handed)
C4_Witness == buildCalls = 1 /\ status = "exited" /\ Len(handed) > 300

\* ---------------------------------------------------------------------------
\* C5: there is no recovery: once a statement has raised, the run is dead at
\* that statement, exactly the statements before it have run (each once, none
\* after it, none again), nothing was printed and nothing returned.
\* ---------------------------------------------------------------------------
C5_NoRecovery ==
    raised # {} =>
        /\ status = "crashed"
        /\ raised = {pc}
        /\ Len(log) = pc - 1
        /\ \A i \in 1..Len(log) : log[i] = i
        /\ stdout = <<>>
        /\ retval = <<>>
C5_Witness == status = "crashed" /\ Program[pc].op = "chart" /\ Len(story) > 0

\* ---------------------------------------------------------------------------
\* C6: in the story handed to the layout engine the table of contents comes
\* before every chapter, the chapter headers carry the numbers 1..10, each
\* once and in increasing order of position, and the References title comes
\* after the header of chapter 10.
\* ---------------------------------------------------------------------------
C6_SectionOrder ==
    buildCalls >= 1 =>
        LET ch == Positions(handed, "ChapterHeader")
            toc == TextPositions(handed, "Table of Contents", "ExecTitle") \cup TocPositions(handed)
            refs == TextPositions(handed, "References", "SectionHeader")
        IN /\ Cardinality(ch) = 10
           /\ \A n \in 1..10 : Cardinality({ p \in ch : handed[p].number = n }) = 1
           /\ \A p, q \in ch : p < q => handed[p].number < handed[q].number
           /\ Cardinality(TextPositions(handed, "Table of Contents", "ExecTitle")) = 1
           /\ \A t \in toc : \A p \in ch : t < p
           /\ Cardinality(refs) = 1
           /\ \A r \in refs : \A p \in ch : p < r
C6_Witness ==
    /\ buildCalls = 1
    /\ Cardinality(Positions(handed, "ChapterHeader")) = 10
    /\ Cardinality(TocPositions(handed)) = 27

\* ---------------------------------------------------------------------------
\* C7: while build_premium_report assembles the story, every step leaves the
\* story it had as a prefix of the story it has: blocks are only appended,
\* nothing in the story is removed, replaced or reordered.
\* ---------------------------------------------------------------------------
C7_AppendOnly == [][(run' = run /\ buildCalls' = 0) => IsPrefix(story, story')]_vars
C7_Witness == buildCalls = 0 /\ Program[pc].op = "build" /\ Len(story) > 300

\* ---------------------------------------------------------------------------
\* C8: no chart generator is called twice in a run, the story holds one Image
\* per completed chart statement, and the story handed to the layout engine
\* holds six Images, one from each generator, the k-th of them followed by
\* the caption that starts with "Figure k: ".
\* ---------------------------------------------------------------------------
CaptionTails ==
    { "Antenna Market Growth Projections by Segment (2024-2030)",
      "Growth Rates Comparison Across Key Market Segments",
      "Global Antenna Market Distribution by Region (2025)",
      "Germany Key Market Segments Growth Projection",
      "Recommended Product Portfolio Allocation",
      "2026 Implementation Roadmap" }
StartsWith(text, prefix) == \E t \in CaptionTails : text = prefix \o t
C8_SixCharts ==
    /\ \A f \in ChartGenerators : ChartCalls(f) <= 1
    /\ buildCalls = 0 =>
          Cardinality(Positions(story, "Image"))
             = Cardinality({ j \in 1..Len(log) : Program[log[j]].op = "chart" })
    /\ buildCalls >= 1 =>
          LET img == Positions(handed, "Image") IN
            /\ \A f \in ChartGenerators : ChartCalls(f) = 1
            /\ Cardinality(img) = 6
            /\ Cardinality({ handed[p].path : p \in img }) = 6
            /\ \A p \in img :
                 LET k == Cardinality({ q \in img : q <= p }) IN
                   /\ p < Len(handed)
                   /\ handed[p + 1].kind = "Paragraph"
                   /\ handed[p + 1].style = "Caption"
                   /\ "text" \in DOMAIN handed[p + 1]
                   /\ StartsWith(handed[p + 1].text, "Figure " \o ToString(k) \o ": ")
C8_Witness == buildCalls = 1 /\ Cardinality(Positions(handed, "Image")) = 6

\* ---------------------------------------------------------------------------
\* C9: every run that completes, a re-run over an existing directory and an
\* existing PDF included, leaves exactly one PDF, at the fixed path, and it is
\* the one this run wrote; no PDF is ever written elsewhere; os.makedirs never
\* fails over a directory that is already there.
\* ---------------------------------------------------------------------------
C9_RerunSamePdf ==
    /\ PdfFiles \subseteq { FixedPath }
    /\ status = "exited" =>
          /\ PdfFiles = { FixedPath }
          /\ files[FixedPath] = [type |-> "pdf", data |-> "complete", run |-> run]
    /\ (status = "crashed" /\ Program[pc].op = "makedirs") => output_dir \notin dirsAtStart
C9_Witness ==
    /\ run = 2
    /\ status = "exited"
    /\ output_dir \in dirsAtStart
    /\ FixedPath \in DOMAIN filesAtStart
    /\ filesAtStart[FixedPath].run = 1

\* ---------------------------------------------------------------------------
\* C10: a run always terminates: it leaves "running" (by the return or by an
\* uncaught exception), control never goes back to an earlier statement, no
\* section builder and no chart generator is called twice, and a run that
\* ends by the return has executed every statement once, in program order:
\* the twelve builders and six chart generators, then the render call, the
\* print and the return.
\* ---------------------------------------------------------------------------
C10_Terminates ==
    /\ (status = "running") ~> (status # "running")
    /\ [][run' = run => pc' >= pc]_vars
    /\ [](/\ \A b \in SectionBuilders : BuilderCalls(b) <= 1
          /\ \A f \in ChartGenerators : ChartCalls(f) <= 1)
    /\ [](status = "exited" =>
            /\ \A b \in SectionBuilders : BuilderCalls(b) = 1
            /\ \A f \in ChartGenerators : ChartCalls(f) = 1
            /\ Len(log) = Len(Program)
            /\ \A i \in 1..Len(log) : log[i] = i
            /\ Program[Len(Program) - 2].op = "build"
            /\ buildCalls = 1
            /\ retval = output_path)
C10_Witness == status = "exited" /\ run = MaxRuns /\ Len(log) = Len(Program)


\* ---------------------------------------------------------------------------
\* C13: no figure stays open between stages: while the run is alive, and so
\* before and after every chart generator call and at the render call, and
\* after a normal exit, the plotting library holds no open figure.
\* ---------------------------------------------------------------------------
C13_NoOpenFigures == status \in {"running", "exited"} => openFigures = 0
C13_Witness ==
    /\ status = "running"
    /\ Program[pc].op = "build"
    /\ \A f \in ChartGenerators : ChartCalls(f) = 1

\* ---------------------------------------------------------------------------
\* C18: a completed add_chart_to_story leaves the story it found as a prefix
\* and adds exactly Spacer, Image, caption Paragraph, Spacer, in this order;
\* it creates exactly one new file, the PNG the Image refers to, and removes
\* none; a completed run has created six distinct PNG files.
\* ---------------------------------------------------------------------------
PngsOfRun == { p \in DOMAIN files : files[p].type = "png" /\ files[p].run = run }
C18_ChartAppendsFour ==
    /\ [][(run' = run /\ status = "running" /\ Program[pc].op = "chart" /\ log' = Append(log, pc)) =>
            LET n == Len(story) IN
              /\ Len(story') = n + 4
              /\ SubSeq(story', 1, n) = story
              /\ story'[n + 1] = Spacer(1, 15)
              /\ story'[n + 2].kind = "Image"
              /\ story'[n + 3] = Paragraph(Program[pc].caption, "Caption")
              /\ story'[n + 4] = Spacer(1, 10)
              /\ DOMAIN files \subseteq DOMAIN files'
              /\ (DOMAIN files') \ (DOMAIN files) = { story'[n + 2].path }
              /\ files'[story'[n + 2].path].type = "png"]_vars
    /\ [](status = "exited" => Cardinality(PngsOfRun) = 6)
C18_Witness ==
    /\ Len(log) > 0
    /\ Program[log[Len(log)]].op = "chart"
    /\ Len(story) > 100

\* ---------------------------------------------------------------------------
\* C20: every Image of the story has its file: the file exists, is closed and
\* holds the whole PNG of the chart generator of its statement (the buffer was
\* read from position 0), from the moment the Image is appended, through the
\* render call, to the end of the run; the run never deletes a file.
\* ---------------------------------------------------------------------------
\* The k-th chart statement of the program.
ChartStmt(k) ==
    CHOOSE i \in StmtsOf({"chart"}) : Cardinality({ j \in StmtsOf({"chart"}) : j <= i }) = k
ImagesHaveFiles(st) ==
    \A p \in Positions(st, "Image") :
        LET k == Cardinality({ q \in Positions(st, "Image") : q <= p })
            f == st[p].path
        IN /\ f \in DOMAIN files
           /\ files[f].type = "png"
           /\ files[f].closed
           /\ files[f].data # ""
           /\ files[f].data = ChartFunc(Program[ChartStmt(k)].chart_func).data
C20_ImagesAvailable ==
    /\ [](ImagesHaveFiles(IF buildCalls >= 1 THEN handed ELSE story))
    /\ [][run' = run => DOMAIN files \subseteq DOMAIN files']_vars
C20_Witness ==
    /\ buildCalls = 1
    /\ status = "exited"
    /\ Cardinality(ImagePaths(handed)) = 6

\* ---------------------------------------------------------------------------
\* Vocabulary of the properties of the drawing code
\* ---------------------------------------------------------------------------
\* " ".join(parts)
RECURSIVE join(_)
join(parts) ==
    IF Len(parts) = 0 THEN << >>
    ELSE IF Len(parts) = 1 THEN parts[1]
    ELSE parts[1] \o << " " >> \o join(Tail(parts))
\* The words of all lines, in order.
RECURSIVE WordsOf(_)
WordsOf(lines) == IF Len(lines) = 0 THEN << >> ELSE split(lines[1]) \o WordsOf(Tail(lines))
Drawn == result # << >> /\ call.fn = "KeyMetricBox.draw"
\* The label lines painted: the text calls after the value.
LabelCalls(canv) == SubSeq(canv, 4, Len(canv))

\* ---------------------------------------------------------------------------
\* C11: the greedy wrap of KeyMetricBox loses no text: the lines joined with
\* single spaces are the label's words joined with single spaces, every word
\* is on exactly one line, in the original order, no line is empty, and a
\* word sits on the line of its predecessor exactly when the line extended by
\* it is narrower than box_width - 16.
\* ---------------------------------------------------------------------------
C11_WrapKeepsText ==
    Drawn =>
        LET lines == result[1].lines
            words == split(call.self.label)
            limit == 1000 * (call.self.box_width - 16)
        IN /\ join(lines) = join(words)
           /\ WordsOf(lines) = words
           /\ \A k \in 1..Len(lines) : Len(lines[k]) > 0 /\ join(split(lines[k])) = lines[k]
           /\ \A k \in 1..Len(lines) :
                \A j \in 2..Len(split(lines[k])) :
                    stringWidth(join(SubSeq(split(lines[k]), 1, j))) < limit
           /\ \A k \in 1..(Len(lines) - 1) :
                ~(stringWidth(lines[k] \o << " " >> \o split(lines[k + 1])[1]) < limit)
C11_Witness ==
    /\ Drawn
    /\ Len(result[1].lines) = 2
    /\ Len(split(result[1].lines[1])) = 2

\* ---------------------------------------------------------------------------
\* C14: KeyMetricBox paints at most two label lines: the first wrapped line at
\* box_height - 55, the second at box_height - 67; the words of a third or
\* later line are painted nowhere.
\* ---------------------------------------------------------------------------
C14_TwoLinesDrawn ==
    Drawn =>
        LET lines == result[1].lines
            label == LabelCalls(result[1].canv)
            h == call.self.box_height
        IN /\ Len(label) = (IF Len(lines) < 2 THEN Len(lines) ELSE 2)
           /\ \A k \in 1..Len(label) : label[k].text = lines[k]
           /\ Len(label) >= 1 => label[1].y = h - 55
           /\ Len(label) >= 2 => label[2].y = h - 67
C14_Witness == Drawn /\ Len(result[1].lines) = 3 /\ Len(LabelCalls(result[1].canv)) = 2

\* ---------------------------------------------------------------------------
\* C15: every line the wrap of KeyMetricBox produces is narrower than
\* box_width - 16, for every label and every box width.  (A word that is
\* too wide on its own is put on a line of its own, unbroken.)
\* ---------------------------------------------------------------------------
C15_EveryLineFits ==
    Drawn =>
        \A k \in 1..Len(result[1].lines) :
            stringWidth(result[1].lines[k]) < 1000 * (call.self.box_width - 16)

\* ---------------------------------------------------------------------------
\* C12: GradientRect.draw fills exactly 50 strips; strip i has, on each
\* channel, color1 + (color2 - color1) * i / 50: strip 0 has exactly color1,
\* every channel value lies between the two endpoint values, and from strip to
\* strip each channel moves by the same (color2 - color1) / 50, in one
\* direction.
\* ---------------------------------------------------------------------------
Channels == { "red", "green", "blue" }
Between(v, a, b) == (a <= v /\ v <= b) \/ (b <= v /\ v <= a)
C12_LinearGradient ==
    (result # << >> /\ call.fn = "GradientRect.draw") =>
        LET strips == result[1]
            c1 == call.self.color1
            c2 == call.self.color2
        IN /\ Len(strips) = 50
           /\ \A ch \in Channels :
                /\ strips[1][ch] = 50 * c1[ch]
                /\ \A n \in 1..50 :
                     /\ strips[n][ch] * 50 = 50 * (50 * c1[ch]) + 50 * (c2[ch] - c1[ch]) * (n - 1)
                     /\ Between(strips[n][ch], 50 * c1[ch], 50 * c2[ch])
                /\ \A n \in 1..49 :
                     /\ strips[n + 1][ch] - strips[n][ch] = c2[ch] - c1[ch]
                     /\ c1[ch] <= c2[ch] => strips[n][ch] <= strips[n + 1][ch]
                     /\ c1[ch] >= c2[ch] => strips[n][ch] >= strips[n + 1][ch]
C12_Witness ==
    /\ result # << >>
    /\ call.fn = "GradientRect.draw"
    /\ call.self.color1 = NAVY_DARK
    /\ call.self.color2 = GOLD
    /\ result[1][50].red > result[1][1].red
    /\ result[1][50].blue < result[1][1].blue

\* ---------------------------------------------------------------------------
\* C19: build_risk_analysis maps the severity to the colour by a total
\* function: HIGH gives #DC2626, MEDIUM gives #C9A227, every other value
\* gives #059669; each risk contributes exactly four flowables in the order
\* header, impact, mitigation, spacer, so the six risks of the program
\* contribute 24 flowables between the intro and the trailing PageBreak.
\* ---------------------------------------------------------------------------
ColourOf(sev) == CASE sev = "HIGH" -> "#DC2626" [] sev = "MEDIUM" -> "#C9A227" [] OTHER -> "#059669"
RiskBlockOk(st, at, risk) ==
    /\ st[at + 1] = Paragraph("<b>" \o risk[1] \o "</b> <font color='" \o ColourOf(risk[2])
                                \o "'>[" \o risk[2] \o " RISK]</font>", "H3Header")
    /\ st[at + 2] = Paragraph("<b>Impact:</b> " \o risk[3], "PremiumBody")
    /\ st[at + 3] = Paragraph("<b>Mitigation:</b> " \o risk[4], "PremiumBody")
    /\ st[at + 4] = Spacer(1, 10)
C19_SeverityColours ==
    (result # << >> /\ call.fn = "build_risk_analysis") =>
        LET st == result[1]
            rs == call.risks
        IN /\ Len(st) = 4 + 4 * Len(rs) + 1
           /\ st[4] = Spacer(1, 15)
           /\ st[Len(st)] = PageBreak
           /\ \A k \in 1..Len(rs) : RiskBlockOk(st, 4 + 4 * (k - 1), rs[k])
           /\ rs = risks => (Len(st) - 5 = 24 /\ st = build_risk_analysis)
C19_Witness ==
    /\ result # << >>
    /\ call.fn = "build_risk_analysis"
    /\ call.risks = risks
    /\ result[1][5].text = "<b>Risk 1: Supply Chain Disruptions</b> <font color='#DC2626'>[HIGH RISK]</font>"
    /\ result[1][17].text = "<b>Risk 4: Regulatory Changes</b> <font color='#059669'>[LOW RISK]</font>"
    /\ result[1][28] = Spacer(1, 10)

\* ---------------------------------------------------------------------------
\* C16: exactly one page callback runs per page: create_cover_page on page 1
\* and only there, page_header_footer on every page p >= 2 and only there;
\* the cover carries no header, footer or page label, the label drawn on page
\* p >= 2 is "Page p" with p the physical page number, and the page of the
\* table of contents is labelled "Page 2".
\* ---------------------------------------------------------------------------
LaidOut == call.fn = "doc.build" /\ result # << >>
EventsOn(p) == { k \in 1..Len(result[1].events) : result[1].events[k].page = p }
C17_CoverHoldsNoContent ==
    LaidOut =>
        /\ call.story[1] = PageBreak
        /\ call.story[2] = Paragraph("Table of Contents", "ExecTitle")
        /\ result[1].placedFrom # 0 => (result[1].placedFrom >= 2 /\ result[1].placedTo >= 2)
        /\ result[1].taken >= 2 => result[1].tocPage = 2
C17_Witness ==
    /\ LaidOut
    /\ result[1].taken = 2
    /\ result[1].placedFrom = 2
    /\ result[1].page = 2

\* ---------------------------------------------------------------------------
\* Vocabulary of the properties of the assembled story
\* ---------------------------------------------------------------------------
\* The story as doc.build received it.
Assembled == buildCalls >= 1
Chapters(st) == Positions(st, "ChapterHeader")
NumberedToc(st) == { i \in TocPositions(st) : st[i].num # "" }
FixedWidthBlocks(st) ==
    Positions(st, "Table") \cup Positions(st, "Image") \cup Positions(st, "ChapterHeader")

\* ---------------------------------------------------------------------------
\* C21: in the assembled story each of the ten ChapterHeader flowables is
\* immediately preceded by a PageBreak: every chapter starts at the top of a
\* new page.
\* ---------------------------------------------------------------------------
C21_ChaptersStartPages ==
    Assembled =>
        /\ Cardinality(Chapters(handed)) = 10
        /\ \A p \in Chapters(handed) : p > 1 /\ handed[p - 1] = PageBreak

\* ---------------------------------------------------------------------------
\* C22: the table of contents agrees with the chapters: for every numbered
\* entry (n, title) of the table of contents there is exactly one
\* ChapterHeader with number n in the story and its title is the entry's
\* title, and every ChapterHeader number has a numbered entry.
\* ---------------------------------------------------------------------------
C22_TocAgreesWithChapters ==
    Assembled =>
        /\ \A i \in NumberedToc(handed) :
             /\ Cardinality({ p \in Chapters(handed) : ToString(handed[p].number) = handed[i].num }) = 1
             /\ \A p \in Chapters(handed) :
                  ToString(handed[p].number) = handed[i].num => handed[p].title = handed[i].title
        /\ \A p \in Chapters(handed) :
             \E i \in NumberedToc(handed) : handed[i].num = ToString(handed[p].number)

\* ---------------------------------------------------------------------------
\* C24: every block of fixed width in the story fits the width between the
\* margins of the A4 page: the sum of the column widths of every Table, the
\* width of every chart Image and the width of every ChapterHeader is at most
\* 595.28 - 50 - 50 points.
\* ---------------------------------------------------------------------------
C24_BlocksFitContentWidth ==
    Assembled =>
        \A p \in FixedWidthBlocks(handed) : FixedWidth(handed[p]) <= ContentWidth

\* ---------------------------------------------------------------------------
\* C23: every line build_toc emits is the first 80 characters of
\* prefix + title + ' ' + 50 dots + ' ' + page, with the prefix '<b>n.</b> '
\* for a numbered entry and five spaces otherwise: it is never longer than 80
\* characters, and the page number is in the line in full exactly when
\* len(prefix) + len(title) + len(page) + 52 <= 80; for a longer title the
\* page number is cut off.
\* ---------------------------------------------------------------------------
\* The characters joined to a string.
RECURSIVE Str(_)
Str(cs) == IF Len(cs) = 0 THEN "" ELSE Head(cs) \o Str(Tail(cs))
TocDone == call.fn = "build_toc" /\ result # << >>
PrefixOf(num) ==
    IF Len(num) > 0 THEN << "<", "b", ">" >> \o num \o << ".", "<", "/", "b", ">", " " >>
    ELSE [i \in 1..5 |-> " "]
FullText(item) ==
    PrefixOf(item[1]) \o item[2] \o << " " >> \o [i \in 1..50 |-> "."] \o << " " >> \o item[3]
PageShown(line, page) == IsSuffix(<< "." , " " >> \o page, line)
C23_TocLineIsFirst80 ==
    TocDone =>
        LET line == result[1]
            item == call.item
            full == FullText(item)
            fits == Len(PrefixOf(item[1])) + Len(item[2]) + Len(item[3]) + 52 <= 80
        IN /\ Len(line) <= 80
           /\ IsPrefix(line, full)
           /\ Len(line) = 80 \/ line = full
           /\ PageShown(line, item[3]) <=> fits
           /\ ~fits => Len(line) = 80 /\ Len(full) > 80
           /\ \A i \in 1..Len(toc_items) :
                item = << chars(toc_items[i][1]), chars(toc_items[i][2]), chars(toc_items[i][3]) >> =>
                    /\ build_toc[2 + i].line = line
                    /\ Str(item[2]) = toc_items[i][2]
                    /\ Str(item[1]) = toc_items[i][1]
                    /\ Str(item[3]) = toc_items[i][3]
C23_Witness ==
    /\ TocDone
    /\ call.item[3] = << "2", "6" >>
    /\ Len(FullText(call.item)) = 81
    /\ Len(result[1]) = 80
    /\ ~PageShown(result[1], call.item[3])
    /\ IsSuffix(<< ".", " ", "2" >>, result[1])

\* ---------------------------------------------------------------------------
\* C25: every style name a section builder or add_chart_to_story looks up in
\* the stylesheet (ExecTitle, SectionHeader, SubsectionHeader, H3Header,
\* PremiumBody, BulletText, InsightText, TableHeader, TOCEntry, TOCSection,
\* Caption, Callout) is one get_premium_styles registered: from the setup on,
\* no lookup of a statement of the assembly fails.
\* ---------------------------------------------------------------------------
\* What a statement of the program looks up in styles.
LookupsOf(s) ==
    CASE s.op = "extend" -> style_lookups(s.builder)
      [] s.op = "chart" -> style_lookups("add_chart_to_story")
      [] OTHER -> {}
AllLookups == UNION { LookupsOf(Program[i]) : i \in 1..Len(Program) }
SetupDone == \E i \in Completed : Program[i].op = "setup"
C25_LookedUpStylesExist ==
    /\ AllLookups = { "ExecTitle", "SectionHeader", "SubsectionHeader", "H3Header",
                      "PremiumBody", "BulletText", "InsightText", "TableHeader",
                      "TOCEntry", "TOCSection", "Caption", "Callout" }
    /\ SetupDone =>
         /\ AllLookups \subseteq DOMAIN styles
         /\ \A n \in AllLookups : styles[n] \in { premium_styles[k] : k \in 1..Len(premium_styles) }
         /\ \A i \in raised : LookupsOf(Program[i]) \subseteq DOMAIN styles
C25_Witness ==
    /\ status = "running"
    /\ Program[pc].op = "build"
    /\ \A b \in SectionBuilders : BuilderCalls(b) = 1
    /\ "Callout" \in DOMAIN styles

\* ---------------------------------------------------------------------------
\* C26: the stylesheet is read-only after the setup: no section builder and
\* no call of add_chart_to_story adds, removes or changes a style; the
\* stylesheet at the render call is the one get_premium_styles returned, and
\* the 'Reference' style of build_references is never registered.
\* ---------------------------------------------------------------------------
C26_StylesheetReadOnly ==
    /\ [](SetupDone => (styles = get_premium_styles /\ "Reference" \notin DOMAIN styles))
    /\ [][(SetupDone /\ run' = run) => styles' = styles]_vars
C26_Witness ==
    /\ status = "running"
    /\ Program[pc].op = "build"
    /\ BuilderCalls("build_references") = 1
    /\ \E p \in 1..Len(story) : story[p].kind = "Paragraph" /\ story[p].style = "Reference"
    /\ styles = get_premium_styles
====
